---- MODULE Spec2Model ----
(***************************************************************************)
(* Verification model of cogent-agent: the NATS agent transport            *)
(* (src/communication/nats_handler.py), the WebSocket gateway              *)
(* (src/communication/websocket_gateway.py), the workflow manager          *)
(* (src/github/workflow.py) driven by the project agent                    *)
(* (src/agent/project_agent.py), and the NATSMessage envelope.             *)
(*                                                                         *)
(* Each component has its own specification (SpecTransport, SpecGateway,   *)
(* SpecWorkflow, SpecEnvelope); the variables of the other components are  *)
(* held at their initial values.                                           *)
(***************************************************************************)
EXTENDS Integers, Sequences, FiniteSets, TLC

(***************************************************************************)
(* Bounds                                                                  *)
(***************************************************************************)
MaxRuns == 2          \* task runs launched by execute_task
MaxMsgs == 2          \* messages the task executor streams in one run
MaxCmds == 2          \* commands delivered on the command subject
MaxSessions == 2      \* WebSocket connections accepted by the gateway
MaxEvents == 1        \* broker events delivered to the gateway
MaxClientMsgs == 2    \* messages sent by the gateway's clients
MaxTasks == 2         \* tasks one ProjectAgent executes, one after another
MaxFires == 2         \* wake-ups of the auto-commit timer
MaxFailedTests == 2   \* failed-test count a test run may report
MaxLen == 2           \* length of a list inside an envelope payload
MaxOrchCmds == 2      \* commands delivered to the orchestrator
MaxWorkers == 1       \* ProjectAgent objects the orchestrator creates
MaxAssigns == 2       \* tasks handed out by assign_task
MaxTimerCommits == 1  \* commits made by the workers' auto-commit timers
MaxBus == 3           \* events and republished events on agent.*.events.>
MaxBeats == 3         \* heartbeat publishes attempted, the ready one included
MaxSweeps == 2        \* sweeps of the monitoring loop

(***************************************************************************)
(* Small helpers                                                           *)
(***************************************************************************)
Last(s) == s[Len(s)]

NoneId == "none"      \* Python None for an Optional[str]

(***************************************************************************)
(* MessageType (nats_handler.py:31-49)                                     *)
(***************************************************************************)
CommandKinds == {"execute_task", "cancel_task", "get_status"}
EventKinds == {"task_started", "task_progress", "task_completed",
               "task_failed", "tool_use", "agent_message"}
SystemKinds == {"heartbeat", "shutdown"}
MessageType == CommandKinds \cup EventKinds \cup SystemKinds

\* MessageType(value): the enum lookup; an unknown value raises ValueError.
MessageTypeOfLenient(s) == IF s \in MessageType THEN s ELSE "execute_task"
MessageTypeOf(s) == IF s \in MessageType THEN s ELSE "ValueError"

VARIABLES
    \* ---- AgentTransport (NATSHandler) ----
    activeTask,       \* _active_task: 0 is None, else the run it refers to
    taskCancelled,    \* _task_cancelled (asyncio.Event)
    runPc,            \* position of each run_task coroutine
    runCancelReq,     \* asyncio.Task.cancel() was called on the run
    runLeft,          \* messages the executor may still yield to the run
    runCorr,          \* correlation id captured by the run's closure
    runResult,        \* how the run ended
    agentState,       \* CogentAgent._state
    orphanGen,        \* an abandoned stream_task generator awaits finalization
    events,           \* events published on agent.<id>.events.<kind>
    lastReply,        \* the last message published on a reply subject
    nreplies,         \* number of messages published on reply subjects
    hPc,              \* position of the _handle_command callback
    hMsg,             \* the command the callback is handling
    ncmds,            \* commands delivered so far
    lastCmd,          \* the last command delivered (wire form)
    lastBusy,         \* whether a run was unfinished when lastCmd arrived
    \* ---- AgentTransport: start_listening, heartbeat, disconnect ----
    listenPc,         \* "connected", "listening", or "raised" by start_listening
    nsubs,            \* len(_subscriptions)
    subscribed,       \* entries of _subscriptions that still deliver
    unsubTried,       \* entries disconnect called unsubscribe() on
    ncConnected,      \* _nc.is_connected
    hbPc,             \* _heartbeat_task: "none", "sleeping" or "done"
    hbCancelReq,      \* _heartbeat_task.cancel() was called
    heartbeats,       \* status of the heartbeat events published
    hbFailures,       \* heartbeat publishes that raised
    dPc,              \* position of disconnect
    dIdx,             \* the subscription disconnect's loop is at
    \* ---- WebSocketGateway ----
    clients,          \* keys of _clients: the connected session ids
    closed,           \* session ids whose connection has ended
    subscriptions,    \* ClientSession.subscriptions of each session
    sessAgent,        \* ClientSession.agent_id of each session
    everSub,          \* agent ids each session ever subscribed to
    sentEvents,       \* subjects of the 'event' messages sent to each session
    fanSubject,       \* subject of the event being fanned out, or <<>>
    fanPos,           \* last session the fan-out loop visited
    fanSize,          \* len(_clients) when the fan-out loop started
    nevents,          \* events delivered by the agent.*.events.> subscription
    nmsgs,            \* client messages handled
    fanStable,        \* sessions connected and matching since the event came
    fanSent,          \* sends of the current fan-out to each session
    cmdPc,            \* position of each session's _handle_command
    cmdIssued,        \* 'command' messages received from each session
    cmdAnswers,       \* answers to 'command' messages sent to each session
    lastAnswer,       \* the last such answer sent to each session
    \* ---- WorkflowManager driven by ProjectAgent.execute_task ----
    wfConfig,         \* WorkflowConfig switches
    wfState,          \* _current_state
    wfTaskId,         \* _current_task_id: 0 is None
    autoCommitTask,   \* _auto_commit_task is not None
    ntimers,          \* auto_commit_loop tasks created and not cancelled
    timerPc,          \* position of the auto_commit_loop task
    wfEvents,         \* events emitted since the current task started
    paPc,             \* position of ProjectAgent.execute_task
    ntasks,           \* tasks started so far
    nfires,           \* timer wake-ups so far
    ctTest,           \* complete_task local: test_result
    ctCommits,        \* complete_task local: number of commits collected
    ctPr,             \* complete_task local: pull_request is set
    pushAttempted,    \* git.push was called in the current complete_task
    pushResult,       \* how that git.push ended
    prAttempted,      \* create_pull_request was called in that call
    callFailed,       \* a collaborator call raised in the current call
    lastReturn,       \* the workflow call that returned last
    wfResult,         \* the WorkflowResult it returned
    \* NATSMessage round trip
    envelope,         \* the NATSMessage that is sent
    wire,             \* the JSON text to_json produced, as tokens
    restored,         \* the NATSMessage from_json produced
    envPc,            \* "made", "encoded" or "decoded"
    \* ---- OrchestratorAgent ----
    disk,             \* directories and plain files below workspace_dir
    workingAreas,     \* _working_areas: area name -> names in area.projects
    projects,         \* _projects: project id -> ProjectInfo
    workers,          \* the ProjectAgent objects created so far
    nworkers,         \* number of ProjectAgent objects created
    tasks,            \* the _execute_project_task coroutines created so far
    nassigned,        \* number of task ids handed out
    orchEvents,       \* events published through nats.publish_event
    oPc,              \* position of initialize / the command callback
    oMsg,             \* the command the callback is handling
    oReply,           \* the last reply published on msg.reply
    oReplies,         \* number of replies published
    oCmds,            \* commands delivered so far
    oPre,             \* what the last command found when it arrived
    timerCommits,     \* commits made by auto-commit timers
    timerWorker,      \* the worker whose timer made the last commit
    \* ---- OrchestratorAgent: event aggregation ----
    bus,              \* messages the broker matched with agent.*.events.>
    aggPos,           \* how many of them _handle_project_event has handled
    \* ---- OrchestratorAgent: monitoring loop and shutdown ----
    monDone,          \* the _monitor_loop task has finished
    monCancelReq,     \* _monitor_task.cancel() was called
    sPc,              \* position of shutdown: "idle", "await_monitor", "done"
    sweeps,           \* per sweep of the monitoring loop, the projects whose
                      \* worker it asked is_ready
    \* ---- CogentClient.send_command ----
    clPc,             \* "idle", "sent" (inside request) or how it returned
    clSeen,           \* replies the agent had published when the request left
    clResult          \* the AgentResponse send_command returned

tvars == <<activeTask, taskCancelled, runPc, runCancelReq, runLeft, runCorr,
           runResult, agentState, orphanGen, events, lastReply, nreplies, hPc, hMsg,
           ncmds, lastCmd, lastBusy>>

lvars == <<listenPc, nsubs, subscribed, unsubTried, ncConnected, hbPc,
           hbCancelReq, heartbeats, hbFailures, dPc, dIdx>>

cvars == <<cmdPc, cmdIssued, cmdAnswers, lastAnswer>>

gvars == <<clients, closed, subscriptions, sessAgent, everSub, sentEvents,
           fanSubject, fanPos, fanSize, nevents, nmsgs, fanStable, fanSent,
           cvars>>

wvars == <<wfConfig, wfState, wfTaskId, autoCommitTask, ntimers, timerPc, wfEvents,
           paPc, ntasks, nfires, ctTest, ctCommits, ctPr, pushAttempted, pushResult,
           prAttempted, callFailed, lastReturn, wfResult>>

evars == <<envelope, wire, restored, envPc>>

ovars == <<disk, workingAreas, projects, workers, nworkers, tasks, nassigned,
           orchEvents, oPc, oMsg, oReply, oReplies, oCmds, oPre, timerCommits,
           timerWorker>>

avars == <<bus, aggPos>>

mvars == <<monDone, monCancelReq, sPc, sweeps>>

kvars == <<clPc, clSeen, clResult>>

vars == <<tvars, lvars, gvars, wvars, evars, ovars, avars, mvars, kvars>>

\* what each component leaves alone
TransportFrame == UNCHANGED <<lvars, gvars, wvars, evars, ovars, avars, mvars,
    kvars>>
ListenerFrame == UNCHANGED <<gvars, wvars, evars, ovars, avars, mvars,
    kvars>>
GatewayFrame == UNCHANGED <<tvars, lvars, wvars, evars, ovars, avars, mvars,
    kvars>>
WorkflowFrame == UNCHANGED <<tvars, lvars, gvars, evars, ovars, avars, mvars,
    kvars>>
EnvelopeFrame == UNCHANGED <<tvars, lvars, gvars, wvars, ovars, avars, mvars,
    kvars>>
OrchestratorFrame == UNCHANGED <<tvars, lvars, gvars, wvars, evars, avars, mvars,
    kvars>>
AggregationFrame == UNCHANGED <<tvars, lvars, gvars, wvars, evars, mvars,
    kvars>>
ClientFrame ==
    UNCHANGED <<tvars, lvars, gvars, wvars, evars, ovars, avars, mvars>>
ShutdownFrame == UNCHANGED <<tvars, lvars, gvars, wvars, evars, avars,
    kvars>>

(***************************************************************************)
(* AgentTransport                                                          *)
(***************************************************************************)
Runs == 1..MaxRuns
CorrIds == {NoneId, "c1"}

\* Wire messages arriving on agent.<id>.command.  "bogus" is not a kind.
RawTypes == {"execute_task", "cancel_task", "get_status", "heartbeat", "bogus"}
RawMsgs == {m \in [type : RawTypes, prompt : {"", "p"}, corr : CorrIds,
                    reply : BOOLEAN] :
               /\ m.type \notin {"execute_task", "bogus"} => m.prompt = ""
               \* requests carry the caller's correlation id
               /\ m.reply <=> m.corr = "c1"}
NoMsg == [type |-> "none", prompt |-> "", corr |-> NoneId, reply |-> FALSE]

\* asyncio.Task.done()
Done(r) == runPc[r] = "done"
Unfinished == {r \in Runs : runPc[r] \in {"created", "streaming"}}

\* self._active_task and not self._active_task.done()
HasActiveTask == activeTask # 0 /\ ~Done(activeTask)

Event(kind, corr, r) == [type |-> kind, corr |-> corr, run |-> r]
Reply(kind, ok, err, corr) ==
    [type |-> kind, success |-> ok, error |-> err, corr |-> corr,
     has_active_task |-> FALSE]

\* _handle_command lines 326-334: reply only when the message has a reply subject
SendReply(m, kind, ok, err, corr) ==
    IF m.reply
    THEN /\ lastReply' = Reply(kind, ok, err, corr)
         /\ nreplies' = nreplies + 1
    ELSE UNCHANGED <<lastReply, nreplies>>
NoReply == Reply("none", FALSE, "", NoneId)

InitTransport ==
    /\ activeTask = 0
    /\ taskCancelled = FALSE
    /\ runPc = [r \in Runs |-> "unborn"]
    /\ runCancelReq = [r \in Runs |-> FALSE]
    /\ runLeft = [r \in Runs |-> 0]
    /\ runCorr = [r \in Runs |-> NoneId]
    /\ runResult = [r \in Runs |-> "none"]
    /\ agentState = "ready"
    /\ orphanGen = FALSE
    /\ events = <<>>
    /\ lastReply = NoReply
    /\ nreplies = 0
    /\ hPc = "idle"
    /\ hMsg = NoMsg
    /\ ncmds = 0
    /\ lastCmd = NoMsg
    /\ lastBusy = FALSE

\* _handle_execute_task lines 353-358: the two rejections
ExecuteRejectionNoBusyCheck(m) ==
    IF m.prompt = "" THEN "No prompt provided" ELSE ""
ExecuteRejection(m) ==
    IF m.prompt = "" THEN "No prompt provided"
    ELSE IF HasActiveTask THEN "Agent is busy processing another task"
    ELSE ""

\* a rejection that publishes task_started before it returns
ExecuteRejectedAfterStarted(m) ==
    /\ SendReply(m, "execute_task", FALSE, ExecuteRejection(m), m.corr)
    /\ events' = Append(events, Event("task_started", m.corr, 0))
    /\ UNCHANGED <<activeTask, taskCancelled, runPc, runCancelReq, runLeft,
                   runCorr, runResult, agentState, orphanGen, hPc, hMsg>>
\* _handle_execute_task lines 353-358: both rejections return before the
\* first publish and before any assignment
ExecuteRejected(m) ==
    /\ SendReply(m, "execute_task", FALSE, ExecuteRejection(m), m.corr)
    /\ UNCHANGED <<activeTask, taskCancelled, runPc, runCancelReq, runLeft,
                   runCorr, runResult, agentState, orphanGen, events, hPc,
                   hMsg>>

\* a cancel handler that sets the flag before it looks at the handle
HandleCancelTaskSettingFlag(m) ==
    /\ taskCancelled' = TRUE
    /\ IF HasActiveTask
       THEN /\ runCancelReq' = [runCancelReq EXCEPT ![activeTask] = TRUE]
            /\ SendReply(m, m.type, TRUE, "", m.corr)
       ELSE /\ SendReply(m, m.type, FALSE, "No active task to cancel",
                                    m.corr)
            /\ UNCHANGED runCancelReq
\* _handle_cancel_task
HandleCancelTask(m) ==
    IF HasActiveTask
    THEN /\ taskCancelled' = TRUE
         /\ runCancelReq' = [runCancelReq EXCEPT ![activeTask] = TRUE]
         /\ SendReply(m, m.type, TRUE, "", m.corr)
    ELSE /\ SendReply(m, m.type, FALSE, "No active task to cancel",
                                 m.corr)
         /\ UNCHANGED <<taskCancelled, runCancelReq>>

\* _handle_get_status with has_active_task read from the handle alone
HandleGetStatusIgnoresDone(m) ==
    IF m.reply
    THEN /\ lastReply' = [Reply(m.type, TRUE, "", m.corr)
                             EXCEPT !.has_active_task = (activeTask # 0)]
         /\ nreplies' = nreplies + 1
    ELSE UNCHANGED <<lastReply, nreplies>>

\* _handle_get_status, lines 430-438, and its reply, lines 326-334
HandleGetStatus(m) ==
    IF m.reply
    THEN /\ lastReply' = [Reply(m.type, TRUE, "", m.corr)
                             EXCEPT !.has_active_task = HasActiveTask]
         /\ nreplies' = nreplies + 1
    ELSE UNCHANGED <<lastReply, nreplies>>

\* _handle_command: one message delivered by the subscription.  The
\* subscription delivers the next message only after the callback returned.
HandleCommand ==
    /\ TransportFrame
    /\ 1 \in subscribed
    /\ hPc = "idle"
    /\ ncmds < MaxCmds
    /\ \E m \in RawMsgs :
        /\ ncmds' = ncmds + 1
        /\ lastCmd' = m
        /\ lastBusy' = (Unfinished # {})
        /\ LET kind == MessageTypeOf(m.type) IN
           CASE kind = "ValueError" ->
                \* from_json raised: except branch, lines 336-344
                /\ SendReply(m, "task_failed", FALSE, "ValueError",
                                        NoneId)
                /\ UNCHANGED <<activeTask, taskCancelled, runPc, runCancelReq,
                               runLeft, runCorr, runResult, agentState,
                               orphanGen, events, hPc, hMsg>>
             [] kind = "execute_task" ->
                IF ExecuteRejection(m) # ""
                THEN ExecuteRejected(m)
                ELSE \* publish task_started, then suspended in the publish
                     /\ events' = Append(events,
                                         Event("task_started", m.corr, 0))
                     /\ hPc' = "exec_started"
                     /\ hMsg' = m
                     /\ UNCHANGED <<activeTask, taskCancelled, runPc,
                                    runCancelReq, runLeft, runCorr, runResult,
                                    agentState, orphanGen, lastReply, nreplies>>
             [] kind = "cancel_task" ->
                /\ HandleCancelTask(m)
                /\ UNCHANGED <<activeTask, runPc, runLeft, runCorr, runResult,
                               agentState, orphanGen, events, hPc, hMsg>>
             [] kind = "get_status" ->
                /\ HandleGetStatus(m)
                /\ UNCHANGED <<activeTask, taskCancelled, runPc, runCancelReq,
                               runLeft, runCorr, runResult, agentState,
                               orphanGen, events, hPc, hMsg>>
             [] OTHER ->
                \* a recognized kind without a handler, lines 320-324
                /\ SendReply(m, kind, FALSE, "Unknown command type",
                                        m.corr)
                /\ UNCHANGED <<activeTask, taskCancelled, runPc, runCancelReq,
                               runLeft, runCorr, runResult, agentState,
                               orphanGen, events, hPc, hMsg>>

\* a launch that publishes task_started a second time
ExecuteLaunchPublishingAgain ==
    /\ TransportFrame
    /\ hPc = "exec_started"
    /\ \E r \in Runs :
        /\ runPc[r] = "unborn"
        /\ \A q \in Runs : q < r => runPc[q] # "unborn"
        /\ taskCancelled' = FALSE
        /\ runPc' = [runPc EXCEPT ![r] = "created"]
        /\ runLeft' = [runLeft EXCEPT ![r] = MaxMsgs]
        /\ runCorr' = [runCorr EXCEPT ![r] = hMsg.corr]
        /\ activeTask' = r
    /\ SendReply(hMsg, "execute_task", TRUE, "Task started",
                            hMsg.corr)
    /\ hPc' = "idle"
    /\ hMsg' = NoMsg
    /\ events' = Append(events, Event("task_started", hMsg.corr, 0))
    /\ UNCHANGED <<runCancelReq, runResult, agentState, orphanGen, ncmds,
                   lastCmd, lastBusy>>
\* _handle_execute_task lines 367-420, after the task_started publish:
\* clear the flag, create the task, return the accepted reply.
ExecuteLaunch ==
    /\ TransportFrame
    /\ hPc = "exec_started"
    /\ \E r \in Runs :
        /\ runPc[r] = "unborn"
        /\ \A q \in Runs : q < r => runPc[q] # "unborn"
        /\ taskCancelled' = FALSE
        /\ runPc' = [runPc EXCEPT ![r] = "created"]
        /\ runLeft' = [runLeft EXCEPT ![r] = MaxMsgs]
        /\ runCorr' = [runCorr EXCEPT ![r] = hMsg.corr]
        /\ activeTask' = r
    /\ SendReply(hMsg, "execute_task", TRUE, "Task started",
                            hMsg.corr)
    /\ hPc' = "idle"
    /\ hMsg' = NoMsg
    /\ UNCHANGED <<runCancelReq, runResult, agentState, orphanGen, events,
                   ncmds, lastCmd, lastBusy>>

Finish(r, res) ==
    /\ runPc' = [runPc EXCEPT ![r] = "done"]
    /\ runResult' = [runResult EXCEPT ![r] = res]

\* run_task enters `async for`: stream_task lines 347-350
RunStart(r) ==
    /\ TransportFrame
    /\ runPc[r] = "created"
    /\ ~runCancelReq[r]
    /\ IF agentState # "ready"
       THEN \* RuntimeError("Agent not ready"): run_task lines 405-411
            /\ events' = Append(events, Event("task_failed", runCorr[r], r))
            /\ Finish(r, "failed")
            /\ UNCHANGED agentState
       ELSE /\ agentState' = "processing"
            /\ runPc' = [runPc EXCEPT ![r] = "streaming"]
            /\ UNCHANGED <<events, runResult>>
    /\ UNCHANGED <<activeTask, taskCancelled, runCancelReq, runLeft, runCorr,
                   orphanGen, lastReply, nreplies, hPc, hMsg, ncmds, lastCmd, lastBusy>>

\* a run that neither receives CancelledError nor checks the flag
RunMessageDespiteCancel(r) ==
    /\ TransportFrame
    /\ runPc[r] = "streaming"
    /\ runLeft[r] > 0
    /\ runLeft' = [runLeft EXCEPT ![r] = @ - 1]
    /\ events' = Append(events, Event("task_progress", runCorr[r], r))
    /\ UNCHANGED <<activeTask, taskCancelled, runPc, runCancelReq, runCorr,
                   runResult, agentState, orphanGen, lastReply, nreplies,
                   hPc, hMsg, ncmds, lastCmd, lastBusy>>
\* one message from the executor: flag check, then the progress publish
RunMessage(r) ==
    /\ TransportFrame
    /\ runPc[r] = "streaming"
    /\ ~runCancelReq[r]
    /\ runLeft[r] > 0
    /\ runLeft' = [runLeft EXCEPT ![r] = @ - 1]
    /\ IF taskCancelled
       THEN \* lines 378-383: return TaskResult("Task cancelled")
            /\ Finish(r, "cancelled_result")
            /\ orphanGen' = TRUE
            /\ UNCHANGED events
       ELSE \/ /\ events' = Append(events,
                                   Event("task_progress", runCorr[r], r))
               /\ UNCHANGED <<runPc, runResult, orphanGen>>
            \/ \* the progress publish raises (payload over the limit)
               /\ events' = Append(events, Event("task_failed", runCorr[r], r))
               /\ Finish(r, "failed")
               /\ orphanGen' = TRUE
    /\ UNCHANGED <<activeTask, taskCancelled, runCancelReq, runCorr,
                   agentState, lastReply, nreplies, hPc, hMsg, ncmds, lastCmd, lastBusy>>

\* the stream is exhausted: stream_task's finally, then lines 396-403
RunEndSilent(r) ==
    /\ TransportFrame
    /\ runPc[r] = "streaming"
    /\ ~runCancelReq[r]
    /\ agentState' = "ready"
    /\ Finish(r, "ok")
    /\ UNCHANGED <<activeTask, taskCancelled, runCancelReq, runLeft, runCorr,
                   orphanGen, events, lastReply, nreplies, hPc, hMsg, ncmds,
                   lastCmd, lastBusy>>
RunEnd(r) ==
    /\ TransportFrame
    /\ runPc[r] = "streaming"
    /\ ~runCancelReq[r]
    /\ agentState' = "ready"
    /\ events' = Append(events, Event("task_completed", runCorr[r], r))
    /\ Finish(r, "ok")
    /\ UNCHANGED <<activeTask, taskCancelled, runCancelReq, runLeft, runCorr,
                   orphanGen, lastReply, nreplies, hPc, hMsg, ncmds, lastCmd, lastBusy>>

\* asyncio delivers CancelledError at the run's suspension point.  It is a
\* BaseException: neither stream_task's nor run_task's `except Exception`
\* catches it; stream_task's finally runs if the generator had started.
RunCancelled(r) ==
    /\ TransportFrame
    /\ runPc[r] \in {"created", "streaming"}
    /\ runCancelReq[r]
    /\ agentState' = IF runPc[r] = "streaming" THEN "ready" ELSE agentState
    /\ Finish(r, "cancelled_error")
    /\ UNCHANGED <<activeTask, taskCancelled, runCancelReq, runLeft, runCorr,
                   orphanGen, events, lastReply, nreplies, hPc, hMsg, ncmds, lastCmd,
                   lastBusy>>

\* the event loop's async-generator finalizer closes an abandoned
\* stream_task generator: its finally sets READY (core.py:394-395)
AsyncGenFinalize ==
    /\ TransportFrame
    /\ orphanGen
    /\ orphanGen' = FALSE
    /\ agentState' = "ready"
    /\ UNCHANGED <<activeTask, taskCancelled, runPc, runCancelReq, runLeft,
                   runCorr, runResult, events, lastReply, nreplies, hPc, hMsg, ncmds,
                   lastCmd, lastBusy>>

RunStep == \E r \in Runs :
    RunStart(r) \/ RunMessage(r) \/ RunEnd(r) \/ RunCancelled(r)

NextTransport ==
    \/ HandleCommand
    \/ ExecuteLaunch
    \/ \E r \in Runs : RunStart(r)
    \/ \E r \in Runs : RunMessage(r)
    \/ \E r \in Runs : RunEnd(r)
    \/ \E r \in Runs : RunCancelled(r)
    \/ AsyncGenFinalize

(***************************************************************************)
(* AgentTransport: start_listening, the heartbeat loop, disconnect         *)
(***************************************************************************)
\* _subscriptions after start_listening: 1 is the command subscription,
\* 2 the broadcast subscription
SubIds == 1..2

\* the transport of a connected agent before start_listening
InitConnected ==
    /\ listenPc = "connected"
    /\ nsubs = 0
    /\ subscribed = {}
    /\ unsubTried = {}
    /\ ncConnected = TRUE
    /\ hbPc = "none"
    /\ hbCancelReq = FALSE
    /\ heartbeats = <<>>
    /\ hbFailures = 0
    /\ dPc = "idle"
    /\ dIdx = 0

\* the same transport after start_listening returned
InitListening ==
    /\ listenPc = "listening"
    /\ nsubs = 2
    /\ subscribed = SubIds
    /\ unsubTried = {}
    /\ ncConnected = TRUE
    /\ hbPc = "sleeping"
    /\ hbCancelReq = FALSE
    /\ heartbeats = <<"ready">>
    /\ hbFailures = 0
    /\ dPc = "idle"
    /\ dIdx = 0

\* start_listening, lines 210-242.  The loop's first publish comes after
\* its 30 second sleep, so the 'ready' publish is the first heartbeat.
StartListening ==
    /\ ListenerFrame
    /\ listenPc = "connected"
    /\ IF ~ncConnected
       THEN \* RuntimeError("Not connected to NATS")
            /\ listenPc' = "raised"
            /\ UNCHANGED <<nsubs, subscribed, hbPc, heartbeats>>
       ELSE /\ nsubs' = 2
            /\ subscribed' = SubIds
            /\ hbPc' = "sleeping"
            /\ \/ /\ heartbeats' = Append(heartbeats, "ready")
                  /\ listenPc' = "listening"
               \/ \* the 'ready' publish raises
                  /\ listenPc' = "raised"
                  /\ UNCHANGED heartbeats
    /\ UNCHANGED <<tvars, unsubTried, ncConnected, hbCancelReq, hbFailures,
                   dPc, dIdx>>

\* a heartbeat loop that leaves `while True` when its publish raises
HeartbeatBeatStoppingOnFailure ==
    /\ ListenerFrame
    /\ hbPc = "sleeping"
    /\ ~hbCancelReq
    /\ Len(heartbeats) + hbFailures < MaxBeats
    /\ \/ /\ heartbeats' = IF ncConnected THEN Append(heartbeats, "alive")
                           ELSE heartbeats
          /\ UNCHANGED <<hbFailures, hbPc>>
       \/ /\ hbFailures' = hbFailures + 1
          /\ hbPc' = "done"
          /\ UNCHANGED heartbeats
    /\ UNCHANGED <<tvars, listenPc, nsubs, subscribed, unsubTried,
                   ncConnected, hbCancelReq, dPc, dIdx>>
\* _heartbeat_loop, lines 463-479: one turn of `while True`.  publish_event
\* returns without publishing when the connection is not up; an exception
\* of the publish is logged and the loop goes round again.
HeartbeatBeat ==
    /\ ListenerFrame
    /\ hbPc = "sleeping"
    /\ ~hbCancelReq
    /\ Len(heartbeats) + hbFailures < MaxBeats
    /\ \/ /\ heartbeats' = IF ncConnected THEN Append(heartbeats, "alive")
                           ELSE heartbeats
          /\ UNCHANGED hbFailures
       \/ /\ hbFailures' = hbFailures + 1
          /\ UNCHANGED heartbeats
    /\ UNCHANGED <<tvars, listenPc, nsubs, subscribed, unsubTried,
                   ncConnected, hbPc, hbCancelReq, dPc, dIdx>>

\* CancelledError reaches the loop at its sleep or publish (line 476:
\* break), or the task is cancelled before it ever ran
HeartbeatCancelled ==
    /\ ListenerFrame
    /\ hbPc = "sleeping"
    /\ hbCancelReq
    /\ hbPc' = "done"
    /\ UNCHANGED <<tvars, listenPc, nsubs, subscribed, unsubTried,
                   ncConnected, hbCancelReq, heartbeats, hbFailures, dPc,
                   dIdx>>

\* disconnect lines 254-257: Task.cancel() is a no-op on a finished task
CancelActive ==
    IF activeTask # 0
    THEN /\ taskCancelled' = TRUE
         /\ runCancelReq' = [runCancelReq EXCEPT
                               ![activeTask] = @ \/ ~Done(activeTask)]
    ELSE UNCHANGED <<taskCancelled, runCancelReq>>

TransportRest == <<activeTask, runPc, runLeft, runCorr, runResult, agentState,
                   orphanGen, events, lastReply, nreplies, hPc, hMsg, ncmds,
                   lastCmd, lastBusy>>

\* disconnect lines 246-257, up to its first suspension
DisconnectBegin ==
    /\ ListenerFrame
    /\ dPc = "idle"
    /\ IF hbPc # "none"
       THEN /\ hbCancelReq' = TRUE
            /\ dPc' = "await_hb"
            /\ UNCHANGED <<taskCancelled, runCancelReq, dIdx>>
       ELSE /\ CancelActive
            /\ dPc' = "unsub"
            /\ dIdx' = 1
            /\ UNCHANGED hbCancelReq
    /\ UNCHANGED <<TransportRest, listenPc, nsubs, subscribed, unsubTried,
                   ncConnected, hbPc, heartbeats, hbFailures>>

\* disconnect lines 249-257: the awaited heartbeat task has ended
DisconnectResume ==
    /\ ListenerFrame
    /\ dPc = "await_hb"
    /\ hbPc = "done"
    /\ CancelActive
    /\ dPc' = "unsub"
    /\ dIdx' = 1
    /\ UNCHANGED <<TransportRest, listenPc, nsubs, subscribed, unsubTried,
                   ncConnected, hbPc, hbCancelReq, heartbeats, hbFailures>>

\* an unsubscribe loop without the try/except around each call
UnsubscribePropagating ==
    /\ ListenerFrame
    /\ dPc = "unsub"
    /\ dIdx <= nsubs
    /\ unsubTried' = unsubTried \cup {dIdx}
    /\ \/ /\ subscribed' = subscribed \ {dIdx}
          /\ dIdx' = dIdx + 1
          /\ UNCHANGED dPc
       \/ /\ dPc' = "raised"
          /\ UNCHANGED <<subscribed, dIdx>>
    /\ UNCHANGED <<tvars, listenPc, nsubs, ncConnected, hbPc, hbCancelReq,
                   heartbeats, hbFailures>>
\* disconnect lines 259-264: one turn of the unsubscribe loop; an exception
\* of unsubscribe() is swallowed
Unsubscribe ==
    /\ ListenerFrame
    /\ dPc = "unsub"
    /\ dIdx <= nsubs
    /\ unsubTried' = unsubTried \cup {dIdx}
    /\ \/ subscribed' = subscribed \ {dIdx}
       \/ UNCHANGED subscribed
    /\ dIdx' = dIdx + 1
    /\ UNCHANGED <<tvars, listenPc, nsubs, ncConnected, hbPc, hbCancelReq,
                   heartbeats, hbFailures, dPc>>

\* disconnect lines 266-274: drain and close; when drain raises, close is
\* not called
DisconnectClose ==
    /\ ListenerFrame
    /\ dPc = "unsub"
    /\ dIdx > nsubs
    /\ IF ncConnected
       THEN \/ /\ ncConnected' = FALSE
               /\ subscribed' = {}
            \/ \* drain raised and close was not called
               UNCHANGED <<ncConnected, subscribed>>
       ELSE UNCHANGED <<ncConnected, subscribed>>
    /\ dPc' = "done"
    /\ UNCHANGED <<tvars, listenPc, nsubs, unsubTried, hbPc, hbCancelReq,
                   heartbeats, hbFailures, dIdx>>

\* the listener's own tasks: start_listening, the heartbeat loop, disconnect
NextHeartbeat ==
    \/ StartListening
    \/ HeartbeatBeat
    \/ HeartbeatCancelled
    \/ DisconnectBegin
    \/ DisconnectResume
    \/ Unsubscribe
    \/ DisconnectClose

\* disconnect racing with the command callback and the runs
NextDisconnect ==
    \/ HeartbeatCancelled
    \/ DisconnectBegin
    \/ DisconnectResume
    \/ Unsubscribe
    \/ DisconnectClose
    \/ HandleCommand
    \/ ExecuteLaunch
    \/ \E r \in Runs : RunStart(r)
    \/ \E r \in Runs : RunMessage(r)
    \/ \E r \in Runs : RunEnd(r)
    \/ \E r \in Runs : RunCancelled(r)
    \/ AsyncGenFinalize

(***************************************************************************)
(* CogentClient.send_command                                               *)
(***************************************************************************)
\* AgentResponse, client.py:18-24, without its data
AgentResponse(ok, err) == [success |-> ok, error |-> err]
NoResponse == AgentResponse(FALSE, "none")

InitClient ==
    /\ clPc = "idle"
    /\ clSeen = 0
    /\ clResult = NoResponse

\* send_command, lines 104-120, on a connected client: the request is
\* published; without a subscriber on agent.<id>.command the broker
\* answers at once and request() raises NoRespondersError, which
\* `except Exception` turns into a response (lines 135-140)
ClientSend ==
    /\ ClientFrame
    /\ clPc = "idle"
    /\ IF 1 \in subscribed
       THEN /\ clPc' = "sent"
            /\ clSeen' = nreplies
            /\ UNCHANGED clResult
       ELSE /\ clPc' = "no_responders"
            /\ clResult' =
                  AgentResponse(FALSE,
                                "nats: no responders available for request")
            /\ UNCHANGED clSeen

\* lines 122-127: a reply published after the request left arrives in time
ClientReceive ==
    /\ ClientFrame
    /\ clPc = "sent"
    /\ nreplies > clSeen
    /\ clPc' = "replied"
    /\ clResult' = AgentResponse(lastReply.success, lastReply.error)
    /\ UNCHANGED clSeen

\* a send_command without the `except nats.errors.TimeoutError` clause
ClientTimeoutRaising ==
    /\ ClientFrame
    /\ clPc = "sent"
    /\ clPc' = "raised"
    /\ UNCHANGED <<clSeen, clResult>>
\* lines 129-134: request() raises TimeoutError after `timeout` seconds,
\* whether or not the agent has handled the command meanwhile
ClientTimeout ==
    /\ ClientFrame
    /\ clPc = "sent"
    /\ clPc' = "timed_out"
    /\ clResult' = AgentResponse(FALSE, "Request timed out")
    /\ UNCHANGED clSeen

\* a caller and the agent it sends its command to
NextClient ==
    \/ StartListening
    \/ ClientSend
    \/ ClientReceive
    \/ ClientTimeout
    \/ HandleCommand
    \/ ExecuteLaunch
    \/ \E r \in Runs : RunStart(r)
    \/ \E r \in Runs : RunMessage(r)
    \/ \E r \in Runs : RunEnd(r)
    \/ \E r \in Runs : RunCancelled(r)
    \/ AsyncGenFinalize

(***************************************************************************)
(* WebSocketGateway                                                        *)
(***************************************************************************)
Sessions == 1..MaxSessions

\* Strings are sequences of characters; an event kind is kept as one symbol.
AgentIds == { <<"a">>, <<"b">>, <<"a", ".", "e", "v", "e", "n", "t", "s">> }
NoAgent == <<>>       \* a missing or empty agent_id
GatewayKinds == {"task_started"}

StartsWith(s, p) == Len(p) <= Len(s) /\ SubSeq(s, 1, Len(p)) = p

\* str.rstrip(chars)
RECURSIVE RStrip(_, _)
RStrip(s, chars) ==
    IF s # <<>> /\ Last(s) \in chars
    THEN RStrip(SubSeq(s, 1, Len(s) - 1), chars)
    ELSE s

\* f"agent.{agent_id}.events"  (websocket_gateway.py:265)
SubscriptionFor(id) ==
    <<"a", "g", "e", "n", "t", ".">> \o id \o
    <<".", "e", "v", "e", "n", "t", "s">>

\* f"{self._events_subject}.{event_type.value}"  (nats_handler.py:301)
EventSubject(id, kind) == SubscriptionFor(id) \o <<".", kind>>

\* the dot-separated tokens of a subject
RECURSIVE Tokens(_)
Tokens(s) ==
    IF \E i \in DOMAIN s : s[i] = "."
    THEN LET i == CHOOSE k \in DOMAIN s :
                     s[k] = "." /\ \A j \in 1..(k - 1) : s[j] # "."
         IN <<SubSeq(s, 1, i - 1)>> \o Tokens(SubSeq(s, i + 1, Len(s)))
    ELSE <<s>>

\* the broker's match of a subject against "agent.*.events.>"
ObservedByGateway(subject) ==
    LET t == Tokens(subject) IN
    /\ Len(t) >= 4
    /\ t[1] = <<"a", "g", "e", "n", "t">>
    /\ t[2] # <<>>
    /\ t[3] = <<"e", "v", "e", "n", "t", "s">>

AgentEventSubjects(id) == {EventSubject(id, k) : k \in GatewayKinds}
Subjects == {x \in UNION {AgentEventSubjects(id) : id \in AgentIds} :
                ObservedByGateway(x)}

\* _subject_matches
SubjectMatches(pattern, subject) ==
    StartsWith(subject, RStrip(pattern, {".", ">", "*"}))

\* the test of _handle_nats_event line 357, over a session's subscriptions
SessionMatches(s, subject) ==
    \E sub \in subscriptions[s] :
        StartsWith(subject, sub) \/ SubjectMatches(sub, subject)

\* the answers to a 'command' message, lines 307-345 and 174-183
Answer(type, error) == [type |-> type, error |-> error]
NoAnswer == Answer(NoneId, "")

InitGateway ==
    /\ clients = {}
    /\ closed = {}
    /\ subscriptions = [s \in Sessions |-> {}]
    /\ sessAgent = [s \in Sessions |-> NoAgent]
    /\ everSub = [s \in Sessions |-> {}]
    /\ sentEvents = [s \in Sessions |-> <<>>]
    /\ fanSubject = <<>>
    /\ fanPos = 0
    /\ fanSize = 0
    /\ nevents = 0
    /\ nmsgs = 0
    /\ fanStable = {}
    /\ fanSent = [s \in Sessions |-> 0]
    /\ cmdPc = [s \in Sessions |-> "idle"]
    /\ cmdIssued = [s \in Sessions |-> 0]
    /\ cmdAnswers = [s \in Sessions |-> 0]
    /\ lastAnswer = [s \in Sessions |-> NoAnswer]

\* _handle_client lines 156-172: a new connection gets a fresh session
ClientConnect ==
    /\ GatewayFrame
    /\ \E s \in Sessions :
        /\ s \notin clients \cup closed
        /\ \A q \in Sessions : q < s => q \in clients \cup closed
        /\ clients' = clients \cup {s}
    /\ UNCHANGED <<closed, subscriptions, sessAgent, everSub, sentEvents,
                   fanSubject, fanPos, fanSize, nevents, nmsgs, fanStable,
                   fanSent, cvars>>

\* _handle_client without the finally clause of lines 187-188
ClientDisconnectKeepsSession ==
    /\ GatewayFrame
    /\ \E s \in clients \ closed :
        /\ cmdPc[s] = "idle"
        /\ closed' = closed \cup {s}
    /\ UNCHANGED <<clients, subscriptions, sessAgent, everSub, sentEvents,
                   fanSubject, fanPos, fanSize, nevents, nmsgs, fanStable,
                   fanSent, cvars>>

\* _handle_client lines 185-188: the message loop of a session ends, while
\* it waits for the next message, and the session leaves the map
ClientDisconnect ==
    /\ GatewayFrame
    /\ \E s \in clients :
        /\ cmdPc[s] = "idle"
        /\ clients' = clients \ {s}
        /\ closed' = closed \cup {s}
        \* the ClientSession goes with its map entry
        /\ subscriptions' = [subscriptions EXCEPT ![s] = {}]
        /\ sessAgent' = [sessAgent EXCEPT ![s] = NoAgent]
        /\ fanStable' = fanStable \ {s}
    /\ UNCHANGED <<everSub, sentEvents, fanSubject, fanPos, fanSize, nevents,
                   nmsgs, fanSent, cvars>>

\* _handle_subscribe
HandleSubscribe ==
    /\ GatewayFrame
    /\ nmsgs < MaxClientMsgs
    /\ nmsgs' = nmsgs + 1
    /\ \E s \in clients, id \in AgentIds \cup {NoAgent} :
        /\ cmdPc[s] = "idle"
        /\ IF id = NoAgent
           THEN UNCHANGED <<subscriptions, sessAgent, everSub>>
           ELSE /\ sessAgent' = [sessAgent EXCEPT ![s] = id]
                /\ subscriptions' = [subscriptions EXCEPT
                                       ![s] = @ \cup {SubscriptionFor(id)}]
                /\ everSub' = [everSub EXCEPT ![s] = @ \cup {id}]
    /\ UNCHANGED <<clients, closed, sentEvents, fanSubject, fanPos, fanSize,
                   nevents, fanStable, fanSent, cvars>>

\* _handle_unsubscribe
HandleUnsubscribe ==
    /\ GatewayFrame
    /\ nmsgs < MaxClientMsgs
    /\ nmsgs' = nmsgs + 1
    /\ \E s \in clients, id \in AgentIds \cup {NoAgent} :
        /\ cmdPc[s] = "idle"
        /\ IF id = NoAgent
           THEN UNCHANGED <<subscriptions, sessAgent>>
           ELSE /\ subscriptions' = [subscriptions EXCEPT
                                       ![s] = @ \ {SubscriptionFor(id)}]
                /\ sessAgent' = [sessAgent EXCEPT
                                   ![s] = IF @ = id THEN NoAgent ELSE @]
        /\ fanStable' = {q \in fanStable :
                            \E sub \in subscriptions'[q] :
                               \/ StartsWith(fanSubject, sub)
                               \/ SubjectMatches(sub, fanSubject)}
    /\ UNCHANGED <<clients, closed, everSub, sentEvents, fanSubject, fanPos,
                   fanSize, nevents, fanSent, cvars>>

\* _handle_nats_event lines 347-363: the subscription callback starts on
\* one event and runs, without suspension, up to its first send
EventArrives ==
    /\ GatewayFrame
    /\ fanSubject = <<>>
    /\ nevents < MaxEvents
    /\ nevents' = nevents + 1
    /\ \E subject \in Subjects :
          LET targets == {s \in clients : SessionMatches(s, subject)}
          IN IF targets = {}
             THEN /\ fanSent' = [s \in Sessions |-> 0]
                  /\ UNCHANGED <<fanSubject, fanPos, fanSize, fanStable,
                                 sentEvents>>
             ELSE LET s == CHOOSE x \in targets : \A y \in targets : x <= y
                  IN /\ fanSubject' = subject
                     /\ fanStable' = targets
                     /\ fanSize' = Cardinality(clients)
                     /\ fanPos' = s
                     /\ sentEvents' = [sentEvents EXCEPT
                                         ![s] = Append(@, subject)]
                     /\ fanSent' = [q \in Sessions |->
                                       IF q = s THEN 1 ELSE 0]
    /\ UNCHANGED <<clients, closed, subscriptions, sessAgent, everSub,
                   nmsgs, cvars>>

\* sessions the loop over _clients.values() has not reached yet
FanRest == {s \in clients : s > fanPos}
FanTargets == {s \in FanRest : SessionMatches(s, fanSubject)}

\* _handle_nats_event lines 354-363: a send has returned and the loop runs
\* up to its next send.  The dict iterator raises RuntimeError when the dict
\* changed size; the handler's except branch (lines 365-366) ends the
\* fan-out.
FanOutStep ==
    /\ GatewayFrame
    /\ fanSubject # <<>>
    /\ IF Cardinality(clients) # fanSize \/ FanTargets = {}
       THEN /\ fanSubject' = <<>>
            /\ fanPos' = 0
            /\ fanSize' = 0
            /\ fanStable' = {}
            /\ UNCHANGED <<sentEvents, fanSent>>
       ELSE LET s == CHOOSE x \in FanTargets : \A y \in FanTargets : x <= y
            IN /\ sentEvents' = [sentEvents EXCEPT
                                   ![s] = Append(@, fanSubject)]
               /\ fanSent' = [fanSent EXCEPT ![s] = @ + 1]
               /\ fanPos' = s
               /\ UNCHANGED <<fanSubject, fanSize, fanStable>>
    /\ UNCHANGED <<clients, closed, subscriptions, sessAgent, everSub,
                   nevents, nmsgs, cvars>>

\* the 'command' messages a client may send
GatewayCommands == {"get_status", NoneId}

\* _handle_command, lines 296-323, up to the request to the agent
HandleCommandBegin ==
    /\ GatewayFrame
    /\ nmsgs < MaxClientMsgs
    /\ nmsgs' = nmsgs + 1
    /\ \E s \in clients, id \in {NoAgent, <<"a">>}, c \in GatewayCommands :
        /\ cmdPc[s] = "idle"
        /\ cmdIssued' = [cmdIssued EXCEPT ![s] = @ + 1]
        /\ LET agent_id == IF id # NoAgent THEN id ELSE sessAgent[s]
           IN IF agent_id = NoAgent
              THEN /\ lastAnswer' = [lastAnswer EXCEPT ![s] =
                                        Answer("error", "agent_id required")]
                   /\ cmdAnswers' = [cmdAnswers EXCEPT ![s] = @ + 1]
                   /\ UNCHANGED cmdPc
              ELSE IF c = NoneId
              THEN /\ lastAnswer' = [lastAnswer EXCEPT ![s] =
                                        Answer("error", "command required")]
                   /\ cmdAnswers' = [cmdAnswers EXCEPT ![s] = @ + 1]
                   /\ UNCHANGED cmdPc
              ELSE /\ cmdPc' = [cmdPc EXCEPT ![s] = "requesting"]
                   /\ UNCHANGED <<lastAnswer, cmdAnswers>>
    /\ UNCHANGED <<clients, closed, subscriptions, sessAgent, everSub,
                   sentEvents, fanSubject, fanPos, fanSize, nevents,
                   fanStable, fanSent>>

\* the ways the request of lines 325-329 and the decoding of line 331 end
RequestOutcomes == {"reply", "timeout", "invalid_json", "error"}

\* what the session is sent for each of them: lines 333-337, 339-344,
\* 178-179 and 180-183
AnswerFor(outcome) ==
    CASE outcome = "reply" -> Answer("command_response", "")
      [] outcome = "timeout" -> Answer("command_response", "Request timed out")
      [] outcome = "invalid_json" -> Answer("error", "Invalid JSON")
      [] OTHER -> Answer("error", "exception")

\* _handle_command whose timeout branch sends nothing
RequestReturnsSilentTimeout(s) ==
    /\ GatewayFrame
    /\ cmdPc[s] = "requesting"
    /\ cmdPc' = [cmdPc EXCEPT ![s] = "idle"]
    /\ \E outcome \in RequestOutcomes :
          IF outcome = "timeout"
          THEN UNCHANGED <<lastAnswer, cmdAnswers>>
          ELSE /\ lastAnswer' = [lastAnswer EXCEPT ![s] = AnswerFor(outcome)]
               /\ cmdAnswers' = [cmdAnswers EXCEPT ![s] = @ + 1]
    /\ UNCHANGED <<clients, closed, subscriptions, sessAgent, everSub,
                   sentEvents, fanSubject, fanPos, fanSize, nevents, nmsgs,
                   fanStable, fanSent, cmdIssued>>

\* _handle_command, lines 325-345: the request returns, times out after
\* 30 seconds or raises, and _handle_client lines 178-183 catch the rest
RequestReturns(s) ==
    /\ GatewayFrame
    /\ cmdPc[s] = "requesting"
    /\ cmdPc' = [cmdPc EXCEPT ![s] = "idle"]
    /\ \E outcome \in RequestOutcomes :
          /\ lastAnswer' = [lastAnswer EXCEPT ![s] = AnswerFor(outcome)]
          /\ cmdAnswers' = [cmdAnswers EXCEPT ![s] = @ + 1]
    /\ UNCHANGED <<clients, closed, subscriptions, sessAgent, everSub,
                   sentEvents, fanSubject, fanPos, fanSize, nevents, nmsgs,
                   fanStable, fanSent, cmdIssued>>

\* the message loops of the sessions, _handle_client
NextGatewayClients ==
    \/ ClientConnect
    \/ ClientDisconnect
    \/ HandleSubscribe
    \/ HandleUnsubscribe
    \/ HandleCommandBegin
    \/ \E s \in Sessions : RequestReturns(s)

NextGateway ==
    \/ NextGatewayClients
    \/ EventArrives
    \/ FanOutStep

(***************************************************************************)
(* WorkflowManager, driven by ProjectAgent.execute_task                    *)
(***************************************************************************)
\* WorkflowState, in declaration order (workflow.py:30-43)
WorkflowOrder == <<"idle", "branching", "developing", "testing", "committing",
                   "pushing", "pr_creating", "waiting_checks", "merging",
                   "completed">>
WorkflowStates == {WorkflowOrder[i] : i \in DOMAIN WorkflowOrder} \cup {"failed"}

\* the switches of WorkflowConfig that complete_task and start_task read;
\* auto_commit stands for auto_commit_interval > 0
Configs == [run_tests : BOOLEAN, auto_create_pr : BOOLEAN,
            auto_merge : BOOLEAN, auto_commit : BOOLEAN]
DefaultConfig == [run_tests |-> TRUE, auto_create_pr |-> TRUE,
                  auto_merge |-> TRUE, auto_commit |-> TRUE]

NoTest == [ran |-> FALSE, success |-> FALSE, failed |-> 0]
NoError == [kind |-> "none", n |-> 0]
\* f"Tests failed: {test_result.failed} failures"
TestsFailedError(n) == [kind |-> "tests_failed", n |-> n]
\* str(e) of a raised exception
ExceptionError == [kind |-> "exception", n |-> 0]

WorkflowResult(call, ok, st, branch, commits, test, pr, err) ==
    [call |-> call, success |-> ok, state |-> st, branch |-> branch,
     commits |-> commits, test |-> test, pr |-> pr, error |-> err]
NoResult == WorkflowResult("none", FALSE, "idle", FALSE, 0, NoTest, FALSE,
                           NoError)

InitWorkflowWith(cfg) ==
    /\ wfConfig = cfg
    /\ wfState = "idle"
    /\ wfTaskId = 0
    /\ autoCommitTask = FALSE
    /\ ntimers = 0
    /\ timerPc = "dead"
    /\ wfEvents = <<>>
    /\ paPc = "idle"
    /\ ntasks = 0
    /\ nfires = 0
    /\ ctTest = NoTest
    /\ ctCommits = 0
    /\ ctPr = FALSE
    /\ pushAttempted = FALSE
    /\ pushResult = "none"
    /\ prAttempted = FALSE
    /\ callFailed = FALSE
    /\ lastReturn = "none"
    /\ wfResult = NoResult

InitWorkflow == \E cfg \in Configs : InitWorkflowWith(cfg)

\* ProjectAgent.execute_task lines 197-222 and start_task lines 174-179:
\* the task id is set, the state becomes BRANCHING, workflow_started is
\* emitted, and start_task waits for its version-control calls.
ExecuteTaskBegin ==
    /\ WorkflowFrame
    /\ paPc = "idle"
    /\ ntasks < MaxTasks
    /\ ntasks' = ntasks + 1
    /\ wfTaskId' = ntasks + 1
    /\ wfState' = "branching"
    /\ wfEvents' = <<"workflow_started">>
    /\ paPc' = "st_branching"
    /\ callFailed' = FALSE
    /\ lastReturn' = "none"
    /\ ctTest' = NoTest
    /\ ctCommits' = 0
    /\ ctPr' = FALSE
    /\ pushAttempted' = FALSE
    /\ pushResult' = "none"
    /\ prAttempted' = FALSE
    /\ UNCHANGED <<wfConfig, autoCommitTask, ntimers, timerPc, nfires, wfResult>>

\* start_task lines 225-233: the except branch
StartTaskFailed ==
    /\ callFailed' = TRUE
    /\ wfState' = "failed"
    /\ wfResult' = WorkflowResult("start_task", FALSE, "failed", FALSE, 0,
                                  NoTest, FALSE, ExceptionError)
    /\ lastReturn' = "start_task"
    /\ paPc' = "idle"
    /\ UNCHANGED <<autoCommitTask, ntimers, timerPc, wfEvents>>

\* a start_task whose _start_auto_commit does not look at _auto_commit_task
StartTaskFinishAlwaysStartingTimer ==
    /\ WorkflowFrame
    /\ paPc = "st_branching"
    /\ \/ \* init_repo, get_status, _ensure_github_repo or create_branch raised
          StartTaskFailed
       \/ /\ wfState' = "developing"
          \* _start_auto_commit, lines 210-211 and 508-523
          /\ IF wfConfig.auto_commit
             THEN /\ autoCommitTask' = TRUE
                  /\ ntimers' = ntimers + 1
                  /\ timerPc' = "sleeping"
             ELSE UNCHANGED <<autoCommitTask, ntimers, timerPc>>
          /\ wfEvents' = Append(wfEvents, "branch_created")
          /\ wfResult' = WorkflowResult("start_task", TRUE, "developing", TRUE,
                                        0, NoTest, FALSE, NoError)
          /\ lastReturn' = "start_task"
          /\ paPc' = "executing"
          /\ UNCHANGED callFailed
    /\ UNCHANGED <<wfConfig, wfTaskId, ntasks, nfires, ctTest, ctCommits, ctPr,
                   pushAttempted, pushResult, prAttempted>>
\* start_task lines 181-223, and the return into execute_task lines 224-238
StartTaskFinish ==
    /\ WorkflowFrame
    /\ paPc = "st_branching"
    /\ \/ \* init_repo, get_status, _ensure_github_repo or create_branch raised
          StartTaskFailed
       \/ /\ wfState' = "developing"
          \* _start_auto_commit, lines 210-211 and 508-523
          /\ IF wfConfig.auto_commit /\ ~autoCommitTask
             THEN /\ autoCommitTask' = TRUE
                  /\ ntimers' = ntimers + 1
                  /\ timerPc' = "sleeping"
             ELSE UNCHANGED <<autoCommitTask, ntimers, timerPc>>
          /\ wfEvents' = Append(wfEvents, "branch_created")
          /\ wfResult' = WorkflowResult("start_task", TRUE, "developing", TRUE,
                                        0, NoTest, FALSE, NoError)
          /\ lastReturn' = "start_task"
          /\ paPc' = "executing"
          /\ UNCHANGED callFailed
    /\ UNCHANGED <<wfConfig, wfTaskId, ntasks, nfires, ctTest, ctCommits, ctPr,
                   pushAttempted, pushResult, prAttempted>>

\* execute_task lines 234-258: the executor returned
ExecutorFinish ==
    /\ WorkflowFrame
    /\ paPc = "executing"
    /\ \/ \* task failed: commit_changes("WIP ...") starts, line 250
          /\ wfState' = "committing"
          /\ paPc' = "wip_commit"
          /\ UNCHANGED <<autoCommitTask, ntimers, timerPc, callFailed, lastReturn>>
       \/ \* complete_task starts: _stop_auto_commit, then get_status
          /\ autoCommitTask' = FALSE
          /\ ntimers' = (IF autoCommitTask THEN ntimers - 1 ELSE ntimers)
          /\ timerPc' = "dead"
          /\ callFailed' = FALSE
          /\ lastReturn' = "none"
          /\ paPc' = "ct_status"
          /\ UNCHANGED wfState
    /\ UNCHANGED <<wfConfig, wfTaskId, wfEvents, ntasks, nfires, ctTest,
                   ctCommits, ctPr, pushAttempted, pushResult, prAttempted, wfResult>>

\* commit_changes lines 256-268 called from execute_task line 250
WipCommitFinish ==
    /\ WorkflowFrame
    /\ paPc = "wip_commit"
    /\ paPc' = "idle"
    /\ \/ \E committed \in BOOLEAN :
            /\ wfEvents' = IF committed THEN Append(wfEvents, "commit_created")
                           ELSE wfEvents
            /\ wfState' = "developing"
       \/ \* stage_files or commit raised: execute_task's except, line 279
          UNCHANGED <<wfState, wfEvents>>
    /\ UNCHANGED <<wfConfig, wfTaskId, autoCommitTask, ntimers, timerPc, ntasks, nfires,
                   ctTest, ctCommits, ctPr, pushAttempted, pushResult, prAttempted,
                   callFailed, lastReturn, wfResult>>

\* complete_task lines 428-442: the except branch
CompleteTaskFailed ==
    /\ callFailed' = TRUE
    /\ wfState' = "failed"
    /\ wfEvents' = Append(wfEvents, "workflow_failed")
    /\ wfResult' = WorkflowResult("complete_task", FALSE, "failed", FALSE, 0,
                                  NoTest, FALSE, ExceptionError)
    /\ lastReturn' = "complete_task"
    /\ paPc' = "idle"
    /\ UNCHANGED wfTaskId

\* a complete_task that emits workflow_completed before its last step events
CompleteTaskSucceedEmittingFirst(pre, pr) ==
    /\ wfState' = "completed"
    /\ wfTaskId' = 0
    /\ wfEvents' = wfEvents \o <<"workflow_completed">> \o pre
    /\ wfResult' = WorkflowResult("complete_task", TRUE, "completed", TRUE,
                                  ctCommits, ctTest, pr, NoError)
    /\ lastReturn' = "complete_task"
    /\ paPc' = "idle"
\* complete_task lines 410-426
CompleteTaskSucceed(pre, pr) ==
    /\ wfState' = "completed"
    /\ wfTaskId' = 0
    /\ wfEvents' = wfEvents \o pre \o <<"workflow_completed">>
    /\ wfResult' = WorkflowResult("complete_task", TRUE, "completed", TRUE,
                                  ctCommits, ctTest, pr, NoError)
    /\ lastReturn' = "complete_task"
    /\ paPc' = "idle"

\* complete_task lines 296-303
CompleteTaskStatus ==
    /\ WorkflowFrame
    /\ paPc = "ct_status"
    /\ \/ CompleteTaskFailed
       \/ /\ IF wfConfig.run_tests
             THEN /\ wfState' = "testing"
                  /\ wfEvents' = Append(wfEvents, "testing_started")
                  /\ paPc' = "ct_testing"
             ELSE \* commit_changes starts, line 250
                  /\ wfState' = "committing"
                  /\ paPc' = "ct_commit"
                  /\ UNCHANGED wfEvents
          /\ UNCHANGED <<wfTaskId, callFailed, lastReturn, wfResult>>
    /\ UNCHANGED <<wfConfig, autoCommitTask, ntimers, timerPc, ntasks, nfires, ctTest,
                   ctCommits, ctPr, pushAttempted, pushResult, prAttempted>>

\* complete_task lines 305-325 with the test failure not ending the call
CompleteTaskTestingNoShortCircuit ==
    /\ WorkflowFrame
    /\ paPc = "ct_testing"
    /\ \/ CompleteTaskFailed /\ UNCHANGED ctTest
       \/ \E ok \in BOOLEAN, n \in 0..MaxFailedTests :
            /\ ok => n = 0
            /\ ctTest' = [ran |-> TRUE, success |-> ok, failed |-> n]
            /\ wfEvents' = Append(wfEvents, "testing_completed")
            /\ wfState' = "committing"
            /\ paPc' = "ct_commit"
            /\ UNCHANGED <<wfTaskId, callFailed, lastReturn, wfResult>>
    /\ UNCHANGED <<wfConfig, autoCommitTask, ntimers, timerPc, ntasks, nfires,
                   ctCommits, ctPr, pushAttempted, pushResult, prAttempted>>

\* complete_task lines 305-328: the test run returned or raised
CompleteTaskTesting ==
    /\ WorkflowFrame
    /\ paPc = "ct_testing"
    /\ \/ CompleteTaskFailed /\ UNCHANGED ctTest
       \/ \E ok \in BOOLEAN, n \in 0..MaxFailedTests :
            /\ ok => n = 0
            /\ ctTest' = [ran |-> TRUE, success |-> ok, failed |-> n]
            /\ wfEvents' = Append(wfEvents, "testing_completed")
            /\ IF ok
               THEN \* commit_changes starts
                    /\ wfState' = "committing"
                    /\ paPc' = "ct_commit"
                    /\ UNCHANGED <<lastReturn, wfResult>>
               ELSE /\ wfState' = "failed"
                    /\ wfResult' = WorkflowResult("complete_task", FALSE,
                                      "failed", TRUE, 0, ctTest', FALSE,
                                      TestsFailedError(n))
                    /\ lastReturn' = "complete_task"
                    /\ paPc' = "idle"
            /\ UNCHANGED <<wfTaskId, callFailed>>
    /\ UNCHANGED <<wfConfig, autoCommitTask, ntimers, timerPc, ntasks, nfires,
                   ctCommits, ctPr, pushAttempted, pushResult, prAttempted>>

\* commit_changes lines 256-268 called from complete_task line 328
CompleteTaskCommit ==
    /\ WorkflowFrame
    /\ paPc = "ct_commit"
    /\ \/ CompleteTaskFailed /\ UNCHANGED ctCommits
       \/ \E committed \in BOOLEAN :
            /\ wfEvents' = IF committed THEN Append(wfEvents, "commit_created")
                           ELSE wfEvents
            /\ ctCommits' = IF committed THEN ctCommits + 1 ELSE ctCommits
            /\ wfState' = "developing"
            /\ paPc' = "ct_committed"
            /\ UNCHANGED <<wfTaskId, callFailed, lastReturn, wfResult>>
    /\ UNCHANGED <<wfConfig, autoCommitTask, ntimers, timerPc, ntasks, nfires, ctTest,
                   ctPr, pushAttempted, pushResult, prAttempted>>

\* complete_task lines 331-339: PUSHING, the pushing event, git.push called
CompleteTaskPushBegin ==
    /\ WorkflowFrame
    /\ paPc = "ct_committed"
    /\ wfState' = "pushing"
    /\ wfEvents' = Append(wfEvents, "pushing")
    /\ pushAttempted' = TRUE
    /\ pushResult' = "none"
    /\ paPc' = "ct_push"
    /\ UNCHANGED <<wfConfig, wfTaskId, autoCommitTask, ntimers, timerPc, ntasks, nfires,
                   ctTest, ctCommits, ctPr, prAttempted, callFailed,
                   lastReturn, wfResult>>

\* complete_task lines 339-352 and 410: the push returned or raised
CompleteTaskPush ==
    /\ WorkflowFrame
    /\ paPc = "ct_push"
    /\ \/ \* "remote" in the error and create_repo raised
          CompleteTaskFailed /\ pushResult' = "no_remote"
       \/ \E swallowed \in BOOLEAN :
            \* the push succeeded, or create_repo repaired a missing remote
            \* (FALSE); or the push failed otherwise and line 340 dropped
            \* the error (TRUE)
            /\ callFailed' = swallowed
            /\ pushResult' = (IF swallowed THEN "error" ELSE "pushed")
            /\ IF wfConfig.auto_create_pr
               THEN /\ wfState' = "pr_creating"
                    /\ wfEvents' = Append(wfEvents, "pr_creating")
                    /\ paPc' = "ct_pr"
                    /\ UNCHANGED <<wfTaskId, lastReturn, wfResult>>
               ELSE CompleteTaskSucceed(<<>>, FALSE)
    /\ UNCHANGED <<wfConfig, autoCommitTask, ntimers, timerPc, ntasks, nfires, ctTest,
                   ctCommits, ctPr, pushAttempted, prAttempted>>

\* a complete_task that requests the merge whatever auto_merge says
CompleteTaskPrAlwaysMerging ==
    /\ WorkflowFrame
    /\ paPc = "ct_pr"
    /\ \/ \* get_recent_commits raised
          CompleteTaskFailed /\ UNCHANGED <<prAttempted, ctPr>>
       \/ \* create_pull_request raised
          CompleteTaskFailed /\ prAttempted' = TRUE /\ UNCHANGED ctPr
       \/ /\ prAttempted' = TRUE
          /\ ctPr' = TRUE
          /\ IF TRUE
             THEN /\ wfState' = "waiting_checks"
                  /\ wfEvents' = Append(wfEvents, "pr_created")
                  /\ paPc' = "ct_merge"
                  /\ UNCHANGED <<wfTaskId, lastReturn, wfResult>>
             ELSE CompleteTaskSucceed(<<"pr_created">>, TRUE)
          /\ UNCHANGED callFailed
    /\ UNCHANGED <<wfConfig, autoCommitTask, ntimers, timerPc, ntasks, nfires, ctTest,
                   ctCommits, pushAttempted, pushResult>>
\* complete_task lines 354-397 and 410
CompleteTaskPr ==
    /\ WorkflowFrame
    /\ paPc = "ct_pr"
    /\ \/ \* get_recent_commits raised
          CompleteTaskFailed /\ UNCHANGED <<prAttempted, ctPr>>
       \/ \* create_pull_request raised
          CompleteTaskFailed /\ prAttempted' = TRUE /\ UNCHANGED ctPr
       \/ /\ prAttempted' = TRUE
          /\ ctPr' = TRUE
          /\ IF wfConfig.auto_merge
             THEN /\ wfState' = "waiting_checks"
                  /\ wfEvents' = Append(wfEvents, "pr_created")
                  /\ paPc' = "ct_merge"
                  /\ UNCHANGED <<wfTaskId, lastReturn, wfResult>>
             ELSE CompleteTaskSucceed(<<"pr_created">>, TRUE)
          /\ UNCHANGED callFailed
    /\ UNCHANGED <<wfConfig, autoCommitTask, ntimers, timerPc, ntasks, nfires, ctTest,
                   ctCommits, pushAttempted, pushResult>>

\* complete_task lines 398-410
CompleteTaskMerge ==
    /\ WorkflowFrame
    /\ paPc = "ct_merge"
    /\ \/ CompleteTaskFailed
       \/ CompleteTaskSucceed(<<"auto_merge_enabled">>, ctPr)
          /\ UNCHANGED callFailed
    /\ UNCHANGED <<wfConfig, autoCommitTask, ntimers, timerPc, ntasks, nfires, ctTest,
                   ctCommits, ctPr, pushAttempted, pushResult, prAttempted>>

\* auto_commit_loop lines 514-519: the sleep ended
TimerFire ==
    /\ WorkflowFrame
    /\ timerPc = "sleeping"
    /\ nfires < MaxFires
    /\ nfires' = nfires + 1
    /\ \/ \* the tree is clean, or get_status raised (line 520)
          UNCHANGED <<wfState, timerPc>>
       \/ \* commit_changes starts, line 250
          /\ wfState' = "committing"
          /\ timerPc' = "committing"
    /\ UNCHANGED <<wfConfig, wfTaskId, autoCommitTask, ntimers, wfEvents, paPc, ntasks,
                   ctTest, ctCommits, ctPr, pushAttempted, pushResult, prAttempted,
                   callFailed, lastReturn, wfResult>>

\* commit_changes lines 256-268 called from auto_commit_loop line 519
TimerCommit ==
    /\ WorkflowFrame
    /\ timerPc = "committing"
    /\ timerPc' = "sleeping"
    /\ \/ \E committed \in BOOLEAN :
            /\ wfEvents' = IF committed THEN Append(wfEvents, "commit_created")
                           ELSE wfEvents
            /\ wfState' = "developing"
       \/ \* stage_files or commit raised: caught at line 520
          UNCHANGED <<wfState, wfEvents>>
    /\ UNCHANGED <<wfConfig, wfTaskId, autoCommitTask, ntimers, paPc, ntasks, nfires,
                   ctTest, ctCommits, ctPr, pushAttempted, pushResult, prAttempted,
                   callFailed, lastReturn, wfResult>>

NextWorkflow ==
    \/ ExecuteTaskBegin
    \/ StartTaskFinish
    \/ ExecutorFinish
    \/ WipCommitFinish
    \/ CompleteTaskStatus
    \/ CompleteTaskTesting
    \/ CompleteTaskCommit
    \/ CompleteTaskPushBegin
    \/ CompleteTaskPush
    \/ CompleteTaskPr
    \/ CompleteTaskMerge
    \/ TimerFire
    \/ TimerCommit

(***************************************************************************)
(* NATSMessage: to_json and from_json                                      *)
(*                                                                         *)
(* A Python value is a tuple whose first element names its type; a dict    *)
(* is the sequence of its (key, value) pairs in insertion order.  The wire *)
(* text is the sequence of JSON tokens json.dumps writes.                  *)
(***************************************************************************)
PyNone == <<"null">>
PyBool(b) == <<"bool", b>>
PyInt(n) == <<"int", n>>
PyStr(s) == <<"str", s>>
PyList(items) == <<"list", items>>
PyDict(pairs) == <<"map", pairs>>

Punct(c) == <<"p", c>>
IsPunct(tok, c) == tok[1] = "p" /\ tok[2] = c

\* json.dumps (nats_handler.py:64): the token sequence of a value
RECURSIVE Dumps(_)
Dumps(v) ==
    LET RECURSIVE Items(_)
        Items(s) == IF s = <<>> THEN <<>>
                    ELSE Dumps(Head(s)) \o
                         (IF Tail(s) = <<>> THEN <<>>
                          ELSE <<Punct(",")>> \o Items(Tail(s)))
        RECURSIVE Pairs(_)
        Pairs(s) == IF s = <<>> THEN <<>>
                    ELSE <<<<"s", Head(s)[1]>>, Punct(":")>> \o
                         Dumps(Head(s)[2]) \o
                         (IF Tail(s) = <<>> THEN <<>>
                          ELSE <<Punct(",")>> \o Pairs(Tail(s)))
    IN  CASE v[1] = "null" -> <<<<"l", "null">>>>
          [] v[1] = "bool" -> <<<<"l", IF v[2] THEN "true" ELSE "false">>>>
          [] v[1] = "int"  -> <<<<"n", v[2]>>>>
          [] v[1] = "str"  -> <<<<"s", v[2]>>>>
          [] v[1] = "list" -> <<Punct("[")>> \o Items(v[2]) \o <<Punct("]")>>
          [] v[1] = "map"  -> <<Punct("{")>> \o Pairs(v[2]) \o <<Punct("}")>>

\* dict[key] = value: a repeated key keeps its place and takes the new value
DictSet(pairs, k, v) ==
    IF \E i \in DOMAIN pairs : pairs[i][1] = k
    THEN [i \in DOMAIN pairs |-> IF pairs[i][1] = k THEN <<k, v>> ELSE pairs[i]]
    ELSE Append(pairs, <<k, v>>)

\* json.loads (nats_handler.py:75): the value that starts at token i, and the
\* index of the token after it
RECURSIVE ParseValue(_, _), ParseItems(_, _, _), ParsePairs(_, _, _)
ParseValue(t, i) ==
    LET tok == t[i]
    IN  CASE tok[1] = "l" ->
               <<IF tok[2] = "null" THEN PyNone ELSE PyBool(tok[2] = "true"),
                 i + 1>>
          [] tok[1] = "n" -> <<PyInt(tok[2]), i + 1>>
          [] tok[1] = "s" -> <<PyStr(tok[2]), i + 1>>
          [] IsPunct(tok, "[") ->
               IF IsPunct(t[i + 1], "]") THEN <<PyList(<<>>), i + 2>>
               ELSE ParseItems(t, i + 1, <<>>)
          [] IsPunct(tok, "{") ->
               IF IsPunct(t[i + 1], "}") THEN <<PyDict(<<>>), i + 2>>
               ELSE ParsePairs(t, i + 1, <<>>)

ParseItems(t, i, acc) ==
    LET r == ParseValue(t, i)
        items == Append(acc, r[1])
    IN  IF IsPunct(t[r[2]], ",") THEN ParseItems(t, r[2] + 1, items)
        ELSE <<PyList(items), r[2] + 1>>

ParsePairs(t, i, acc) ==
    LET r == ParseValue(t, i + 2)
        pairs == DictSet(acc, t[i][2], r[1])
    IN  IF IsPunct(t[r[2]], ",") THEN ParsePairs(t, r[2] + 1, pairs)
        ELSE <<PyDict(pairs), r[2] + 1>>

Loads(t) == ParseValue(t, 1)[1]

HasKey(obj, k) == \E i \in DOMAIN obj[2] : obj[2][i][1] = k
\* obj[k]; a missing key is a KeyError
Item(obj, k) ==
    IF HasKey(obj, k)
    THEN obj[2][CHOOSE i \in DOMAIN obj[2] : obj[2][i][1] = k][2]
    ELSE <<"KeyError">>
\* obj.get(k, default)
Get(obj, k, default) == IF HasKey(obj, k) THEN Item(obj, k) ELSE default

\* the fields of a NATSMessage; type is the value of the MessageType member
NATSMessage(type, agent_id, payload, timestamp, correlation_id) ==
    [type |-> type, agent_id |-> agent_id, payload |-> payload,
     timestamp |-> timestamp, correlation_id |-> correlation_id]

\* to_json without the correlation_id key
to_jsonWithoutCorrelation(e) ==
    Dumps(PyDict(<< <<"type", PyStr(e.type)>>,
                    <<"agent_id", e.agent_id>>,
                    <<"payload", e.payload>>,
                    <<"timestamp", e.timestamp>> >>))

\* NATSMessage.to_json, lines 62-70
to_json(e) ==
    Dumps(PyDict(<< <<"type", PyStr(e.type)>>,
                    <<"agent_id", e.agent_id>>,
                    <<"payload", e.payload>>,
                    <<"timestamp", e.timestamp>>,
                    <<"correlation_id", e.correlation_id>> >>))

\* NATSMessage.from_json, lines 72-82
from_json(data) ==
    LET obj == Loads(data)
    IN  NATSMessage(MessageTypeOf(Item(obj, "type")[2]),
                    Item(obj, "agent_id"),
                    Item(obj, "payload"),
                    Get(obj, "timestamp", PyStr("")),
                    Get(obj, "correlation_id", PyNone))

\* the payloads and envelopes the round trip is applied to
Scalars == {PyNone, PyBool(TRUE), PyBool(FALSE), PyInt(0), PyInt(1),
            PyStr("1")}
SeqsUpTo(S, n) == UNION {[1..k -> S] : k \in 0..n}
Keys == {"a", "b"}
\* dicts over Keys in either insertion order
DictsOver(V) ==
    {PyDict(<<>>)}
        \cup {PyDict(<< <<k, v>> >>) : k \in Keys, v \in V}
        \cup {PyDict(<< <<k[1], v[1]>>, <<k[2], v[2]>> >>) :
                k \in {kk \in Keys \X Keys : kk[1] # kk[2]}, v \in V \X V}
Inner == {PyNone, PyBool(TRUE), PyInt(1), PyList(<<PyBool(FALSE)>>),
          PyDict(<< <<"a", PyInt(0)>> >>)}
\* values whose lists have at most n items
Nested(n) == Scalars \cup {PyList(s) : s \in SeqsUpTo(Inner, n)}
                     \cup DictsOver({PyBool(TRUE), PyInt(1), PyStr("1")})
Payloads(n) ==
    {p \in DictsOver(Nested(n)) :
        Cardinality({i \in DOMAIN p[2] : p[2][i][2] \notin Scalars}) <= 1}
SenderIds == {PyStr("cogent-agent-001")}
CorrelationIds == {PyNone, PyStr(""), PyStr("c1")}
Envelopes(n) ==
    {NATSMessage(k, a, p, PyStr("2024-01-01T00:00:00"), c) :
        k \in MessageType, a \in SenderIds, p \in Payloads(n),
        c \in CorrelationIds}
NoEnvelope == NATSMessage("none", PyNone, PyNone, PyNone, PyNone)

InitEnvelopeWith(e) ==
    /\ envelope = e
    /\ wire = <<>>
    /\ restored = NoEnvelope
    /\ envPc = "made"

DefaultEnvelope ==
    NATSMessage("heartbeat", PyStr("cogent-agent-001"), PyDict(<<>>),
                PyStr("2024-01-01T00:00:00"), PyNone)

InitEnvelope == \E e \in Envelopes(MaxLen) : InitEnvelopeWith(e)

ToJson ==
    /\ EnvelopeFrame
    /\ envPc = "made"
    /\ wire' = to_json(envelope)
    /\ envPc' = "encoded"
    /\ UNCHANGED <<envelope, restored>>

FromJson ==
    /\ EnvelopeFrame
    /\ envPc = "encoded"
    /\ restored' = from_json(wire)
    /\ envPc' = "decoded"
    /\ UNCHANGED <<envelope, wire>>

NextEnvelope ==
    \/ ToJson
    \/ FromJson

(***************************************************************************)
(* OrchestratorAgent (orchestrator.py)                                     *)
(***************************************************************************)
\* ProjectState, lines 28-35
ProjectState == {"pending", "running", "idle", "error", "stopped"}

\* directory names; a path below workspace_dir is a sequence of names
ProjNames == {"svc", "web"}
HiddenNames == {".cache", ".git"}
FileNames == {"README"}
AreaNames == {"default", ".cache"}

\* name.startswith(".")
StartsWithDot(name) == name \in HiddenNames

\* f"{working_area}/{name}", lines 164 and 312
ProjectIdOf(area, name) == <<area, name>>
ProjectIds == {ProjectIdOf(a, n) : a \in AreaNames, n \in ProjNames}

\* ProjectInfo as constructed at lines 165-171 and 313-319; the path is
\* workspace_dir / working_area / name, which the project id determines
NewProjectInfo == [state |-> "pending", agent |-> 0, current_task |-> 0]

EmptyMap == [x \in {} |-> x]

\* the entries of a directory: Path.iterdir()
IterDir(d, p) ==
    {q \in d.dirs \cup d.files :
        Len(q) = Len(p) + 1 /\ SubSeq(q, 1, Len(p)) = p}

\* the names iterdir yields that are directories and not hidden,
\* lines 154-155 and 162-163
VisibleDirs(d, p) ==
    {q[Len(q)] : q \in {r \in IterDir(d, p) :
                          r \in d.dirs /\ ~StartsWithDot(r[Len(r)])}}

\* the workspaces the orchestrator may be started on
Workspaces ==
    { [dirs |-> {}, files |-> {}],
      [dirs |-> {<<>>}, files |-> {}],
      [dirs |-> {<<>>, <<"default">>, <<".cache">>, <<".cache", "svc">>},
       files |-> {<<"README">>}],
      [dirs |-> {<<>>, <<"default">>, <<"default", "svc">>,
                 <<"default", ".git">>, <<".cache">>},
       files |-> {<<"README">>, <<"default", "README">>}] }

DefaultWorkspace == [dirs |-> {<<>>}, files |-> {}]

\* the part of the state _discover_projects reads and writes
Registry == [disk |-> disk, workingAreas |-> workingAreas,
             projects |-> projects]

\* the project ids discovery finds below the visible working areas
FoundProjects(d) ==
    UNION {{ProjectIdOf(a, n) : n \in VisibleDirs(d, <<a>>)}
              : a \in VisibleDirs(d, <<>>)}

\* the WorkingArea objects discovery builds, over the ones registered before
DiscoveredAreas(s) ==
    LET areas == VisibleDirs(s.disk, <<>>)
    IN [a \in DOMAIN s.workingAreas \cup areas |->
           IF a \in areas THEN VisibleDirs(s.disk, <<a>>)
           ELSE s.workingAreas[a]]

\* _discover_projects that keeps the entry of a project it already knows
\* and marks it idle
DiscoveredMarkingKnown(s) ==
    IF <<>> \notin s.disk.dirs
    THEN [s EXCEPT !.disk.dirs = @ \cup {<<>>}]
    ELSE LET found == FoundProjects(s.disk)
         IN [disk |-> s.disk,
             workingAreas |-> DiscoveredAreas(s),
             projects |->
                [id \in DOMAIN s.projects \cup found |->
                    IF id \in DOMAIN s.projects
                    THEN [s.projects[id] EXCEPT !.state = "idle"]
                    ELSE NewProjectInfo]]

\* _discover_projects, lines 144-181, as a function of the registry
Discovered(s) ==
    IF <<>> \notin s.disk.dirs
    THEN [s EXCEPT !.disk.dirs = @ \cup {<<>>}]
    ELSE LET found == FoundProjects(s.disk)
         IN [disk |-> s.disk,
             workingAreas |-> DiscoveredAreas(s),
             projects |->
                [id \in DOMAIN s.projects \cup found |->
                    IF id \in found THEN NewProjectInfo
                    ELSE s.projects[id]]]

\* ProjectAgent.__init__, project_agent.py:84-111
NoWorker == [project |-> <<>>, ready |-> FALSE, timer |-> FALSE]

NoTask == [pc |-> "unborn", project |-> <<>>, worker |-> 0, success |-> FALSE]

NoCommand == [command |-> NoneId, working_area |-> NoneId, name |-> NoneId,
              project_id |-> <<>>, prompt |-> NoneId, reply |-> FALSE]

NoOrchReply == [seq |-> 0, command |-> NoneId, success |-> FALSE,
                error |-> "", project_id |-> <<>>, task_id |-> 0,
                task_pc |-> "unborn", listing |-> EmptyMap]

NoPre == [existed |-> FALSE, registered |-> FALSE, agent |-> 0,
          ready |-> FALSE, nworkers |-> 0, unfinished |-> {}]

\* OrchestratorAgent.__init__, lines 73-103
InitOrchestratorWith(ws) ==
    /\ disk = ws
    /\ workingAreas = EmptyMap
    /\ projects = EmptyMap
    /\ workers = [w \in 1..MaxWorkers |-> NoWorker]
    /\ nworkers = 0
    /\ tasks = [t \in 1..MaxAssigns |-> NoTask]
    /\ nassigned = 0
    /\ orchEvents = <<>>
    /\ oPc = "new"
    /\ oMsg = NoCommand
    /\ oReply = NoOrchReply
    /\ oReplies = 0
    /\ oCmds = 0
    /\ oPre = NoPre
    /\ timerCommits = 0
    /\ timerWorker = 0
    /\ bus = <<>>
    /\ aggPos = 0
    /\ monDone = FALSE
    /\ monCancelReq = FALSE
    /\ sPc = "idle"
    /\ sweeps = <<>>

InitOrchestrator == \E ws \in Workspaces : InitOrchestratorWith(ws)

\* initialize, lines 105-123: discovery, then the command subscription
Initialize ==
    /\ OrchestratorFrame
    /\ oPc = "new"
    /\ LET s == Discovered(Registry)
       IN /\ disk' = s.disk
          /\ workingAreas' = s.workingAreas
          /\ projects' = s.projects
    /\ oPc' = "idle"
    /\ UNCHANGED <<workers, nworkers, tasks, nassigned, orchEvents, oMsg,
                   oReply, oReplies, oCmds, oPre, timerCommits, timerWorker>>

\* payload.get("working_area", "default"), line 289
WorkingAreaOf(m) ==
    IF m.working_area = NoneId THEN "default" ELSE m.working_area

\* the project a command names
TargetOf(m) ==
    IF m.command = "create_project" /\ m.name # NoneId
    THEN ProjectIdOf(WorkingAreaOf(m), m.name)
    ELSE m.project_id

\* the tasks of a project whose coroutine has not finished
UnfinishedTasks(id) ==
    {t \in 1..MaxAssigns :
        tasks[t].project = id /\ tasks[t].pc \notin {"unborn", "done"}}

\* what a command finds when it is delivered
PreOf(m) ==
    LET id == TargetOf(m)
        reg == id \in DOMAIN projects
        w == IF reg THEN projects[id].agent ELSE 0
    IN [existed |-> id \in disk.dirs \cup disk.files,
        registered |-> reg,
        agent |-> w,
        ready |-> w # 0 /\ workers[w].ready,
        nworkers |-> nworkers,
        unfinished |-> IF id = <<>> THEN {} ELSE UnfinishedTasks(id)]

\* the commands a client may publish on orchestrator.<id>.command
OrchCommand(c, area, name, id, prompt, reply) ==
    [command |-> c, working_area |-> area, name |-> name,
     project_id |-> id, prompt |-> prompt, reply |-> reply]

OrchCommands ==
    {OrchCommand("list_projects", NoneId, NoneId, <<>>, NoneId, r)
        : r \in BOOLEAN}
    \cup {OrchCommand("create_project", a, n, <<>>, NoneId, TRUE)
        : a \in {NoneId, ".cache"}, n \in ProjNames \cup {NoneId}}
    \cup {OrchCommand("assign_task", NoneId, NoneId, id, p, TRUE)
        : id \in ProjectIds \cup {<<>>}, p \in {"p", NoneId}}
    \cup {OrchCommand(c, NoneId, NoneId, id, NoneId, TRUE)
        : c \in {"get_project_status", "stop_project"},
          id \in ProjectIds \cup {<<>>}}
    \cup {OrchCommand("restart", NoneId, NoneId, <<>>, NoneId, TRUE)}

\* the callback takes the next message of its subscription, lines 203-207
Deliver(m) ==
    /\ oPc = "idle"
    /\ oCmds < MaxOrchCmds
    /\ oCmds' = oCmds + 1
    /\ oMsg' = m
    /\ oPre' = PreOf(m)

OrchReply(m, ok, err) ==
    [NoOrchReply EXCEPT !.seq = oCmds + 1, !.command = m.command,
                        !.success = ok, !.error = err]

\* lines 215-222: the response is published when the message has a reply
\* subject
ReplyWith(m, resp) ==
    IF m.reply
    THEN /\ oReply' = resp
         /\ oReplies' = oReplies + 1
    ELSE UNCHANGED <<oReply, oReplies>>

\* _handle_list_projects, lines 272-285
HandleListProjects ==
    \E m \in OrchCommands :
        /\ OrchestratorFrame
        /\ m.command = "list_projects"
        /\ Deliver(m)
        /\ ReplyWith(m, [OrchReply(m, TRUE, "") EXCEPT
                            !.listing = [id \in DOMAIN projects |->
                                            projects[id].state]])
        /\ UNCHANGED <<disk, workingAreas, projects, workers, nworkers, tasks,
                       nassigned, orchEvents, oPc, timerCommits, timerWorker>>

\* _handle_create_project that registers the project although the directory
\* exists
HandleCreateProjectOverExisting ==
    \E m \in OrchCommands :
        /\ OrchestratorFrame
        /\ m.command = "create_project"
        /\ Deliver(m)
        /\ LET area == WorkingAreaOf(m)
               id == ProjectIdOf(area, m.name)
               known == area \in DOMAIN workingAreas
               areas1 == [a \in DOMAIN workingAreas \cup {area} |->
                             IF a \in DOMAIN workingAreas
                             THEN workingAreas[a] ELSE {}]
               dirs1 == IF known THEN disk.dirs
                        ELSE disk.dirs \cup {<<>>, <<area>>}
           IN IF m.name = NoneId
              THEN /\ ReplyWith(m, OrchReply(m, FALSE, "Project name required"))
                   /\ UNCHANGED <<disk, workingAreas, projects>>
              ELSE /\ disk' = [disk EXCEPT !.dirs = dirs1 \cup {id}]
                   /\ workingAreas' =
                         [areas1 EXCEPT ![area] = @ \cup {m.name}]
                   /\ projects' =
                         [p \in DOMAIN projects \cup {id} |->
                             IF p = id THEN NewProjectInfo ELSE projects[p]]
                   /\ ReplyWith(m, [OrchReply(m, TRUE, "") EXCEPT
                                       !.project_id = id])
        /\ UNCHANGED <<workers, nworkers, tasks, nassigned, orchEvents, oPc,
                       timerCommits, timerWorker>>

\* _handle_create_project, lines 287-329
HandleCreateProject ==
    \E m \in OrchCommands :
        /\ OrchestratorFrame
        /\ m.command = "create_project"
        /\ Deliver(m)
        /\ LET area == WorkingAreaOf(m)
               id == ProjectIdOf(area, m.name)
               known == area \in DOMAIN workingAreas
               areas1 == [a \in DOMAIN workingAreas \cup {area} |->
                             IF a \in DOMAIN workingAreas
                             THEN workingAreas[a] ELSE {}]
               dirs1 == IF known THEN disk.dirs
                        ELSE disk.dirs \cup {<<>>, <<area>>}
           IN IF m.name = NoneId
              THEN /\ ReplyWith(m, OrchReply(m, FALSE, "Project name required"))
                   /\ UNCHANGED <<disk, workingAreas, projects>>
              ELSE IF id \in disk.dirs \cup disk.files
              THEN /\ disk' = [disk EXCEPT !.dirs = dirs1]
                   /\ workingAreas' = areas1
                   /\ ReplyWith(m, OrchReply(m, FALSE, "already exists"))
                   /\ UNCHANGED projects
              ELSE /\ disk' = [disk EXCEPT !.dirs = dirs1 \cup {id}]
                   /\ workingAreas' =
                         [areas1 EXCEPT ![area] = @ \cup {m.name}]
                   /\ projects' =
                         [p \in DOMAIN projects \cup {id} |->
                             IF p = id THEN NewProjectInfo ELSE projects[p]]
                   /\ ReplyWith(m, [OrchReply(m, TRUE, "") EXCEPT
                                       !.project_id = id])
        /\ UNCHANGED <<workers, nworkers, tasks, nassigned, orchEvents, oPc,
                       timerCommits, timerWorker>>

\* _handle_get_project_status, lines 363-378
HandleGetProjectStatus ==
    \E m \in OrchCommands :
        /\ OrchestratorFrame
        /\ m.command = "get_project_status"
        /\ Deliver(m)
        /\ IF m.project_id \in DOMAIN projects
           THEN ReplyWith(m, [OrchReply(m, TRUE, "") EXCEPT
                                 !.project_id = m.project_id,
                                 !.task_id = projects[m.project_id].current_task,
                                 !.listing = [id \in {m.project_id} |->
                                                 projects[id].state]])
           ELSE ReplyWith(m, OrchReply(m, FALSE, "Project not found"))
        /\ UNCHANGED <<disk, workingAreas, projects, workers, nworkers, tasks,
                       nassigned, orchEvents, oPc, timerCommits, timerWorker>>

\* a stop_project that stops the worker and keeps the reference to it
HandleStopProjectKeepingWorker ==
    \E m \in OrchCommands :
        /\ OrchestratorFrame
        /\ m.command = "stop_project"
        /\ Deliver(m)
        /\ IF m.project_id \in DOMAIN projects
           THEN /\ LET w == projects[m.project_id].agent
                   IN IF w # 0
                      THEN /\ workers' = [workers EXCEPT ![w].ready = FALSE]
                           /\ projects' = [projects EXCEPT
                                             ![m.project_id].state = "stopped"]
                      ELSE UNCHANGED <<workers, projects>>
                /\ ReplyWith(m, [OrchReply(m, TRUE, "") EXCEPT
                                    !.project_id = m.project_id])
           ELSE /\ ReplyWith(m, OrchReply(m, FALSE, "Project not found"))
                /\ UNCHANGED <<workers, projects>>
        /\ UNCHANGED <<disk, workingAreas, nworkers, tasks, nassigned,
                       orchEvents, oPc, timerCommits, timerWorker>>
\* _handle_stop_project, lines 380-393, with ProjectAgent.stop,
\* project_agent.py:167-177
HandleStopProject ==
    \E m \in OrchCommands :
        /\ OrchestratorFrame
        /\ m.command = "stop_project"
        /\ Deliver(m)
        /\ IF m.project_id \in DOMAIN projects
           THEN /\ LET w == projects[m.project_id].agent
                   IN IF w # 0
                      THEN /\ workers' = [workers EXCEPT ![w].ready = FALSE]
                           /\ projects' = [projects EXCEPT
                                             ![m.project_id].agent = 0,
                                             ![m.project_id].state = "stopped"]
                      ELSE UNCHANGED <<workers, projects>>
                /\ ReplyWith(m, [OrchReply(m, TRUE, "") EXCEPT
                                    !.project_id = m.project_id])
           ELSE /\ ReplyWith(m, OrchReply(m, FALSE, "Project not found"))
                /\ UNCHANGED <<workers, projects>>
        /\ UNCHANGED <<disk, workingAreas, nworkers, tasks, nassigned,
                       orchEvents, oPc, timerCommits, timerWorker>>

\* lines 209-213: a command without a handler
HandleUnknownCommand ==
    \E m \in OrchCommands :
        /\ OrchestratorFrame
        /\ m.command \notin {"list_projects", "create_project", "assign_task",
                             "get_project_status", "stop_project"}
        /\ Deliver(m)
        /\ ReplyWith(m, OrchReply(m, FALSE, "Unknown command"))
        /\ UNCHANGED <<disk, workingAreas, projects, workers, nworkers, tasks,
                       nassigned, orchEvents, oPc, timerCommits, timerWorker>>

\* lines 347-361: the task id, current_task, create_task and the response
LaunchTask(m, projs, seq) ==
    LET t == nassigned + 1
    IN /\ nassigned' = t
       /\ projects' = [projs EXCEPT ![m.project_id].current_task = t]
       /\ tasks' = [tasks EXCEPT ![t] = [NoTask EXCEPT !.pc = "created",
                                            !.project = m.project_id]]
       /\ ReplyWith(m, [OrchReply(m, TRUE, "") EXCEPT
                           !.seq = seq, !.project_id = m.project_id,
                           !.task_id = t, !.task_pc = "created"])

\* _handle_assign_task, lines 331-361, up to its first suspension: with no
\* worker reference, _start_project_agent (lines 395-410) stores the new
\* ProjectAgent in project.agent and awaits its start
HandleAssignTask ==
    \E m \in OrchCommands :
        /\ OrchestratorFrame
        /\ m.command = "assign_task"
        /\ Deliver(m)
        /\ IF m.project_id = <<>> \/ m.prompt = NoneId
           THEN /\ ReplyWith(m, OrchReply(m, FALSE,
                                          "project_id and prompt required"))
                /\ UNCHANGED <<projects, workers, nworkers, tasks, nassigned, oPc>>
           ELSE IF m.project_id \notin DOMAIN projects
           THEN /\ ReplyWith(m, OrchReply(m, FALSE, "Project not found"))
                /\ UNCHANGED <<projects, workers, nworkers, tasks, nassigned, oPc>>
           ELSE IF projects[m.project_id].agent = 0
           THEN /\ nworkers < MaxWorkers
                /\ nworkers' = nworkers + 1
                /\ workers' = [workers EXCEPT ![nworkers + 1] =
                                 [NoWorker EXCEPT !.project = m.project_id]]
                /\ projects' = [projects EXCEPT
                                  ![m.project_id].agent = nworkers + 1]
                /\ oPc' = "starting"
                /\ UNCHANGED <<tasks, nassigned, oReply, oReplies>>
           ELSE /\ nassigned < MaxAssigns
                /\ LaunchTask(m, projects, oCmds + 1)
                /\ UNCHANGED <<workers, nworkers, oPc>>
        /\ UNCHANGED <<disk, workingAreas, orchEvents, timerCommits,
                       timerWorker>>

\* ProjectAgent.start succeeds (project_agent.py:128-165); line 411 and the
\* rest of _handle_assign_task follow
AgentStarted ==
    /\ OrchestratorFrame
    /\ oPc = "starting"
    /\ nassigned < MaxAssigns
    /\ LET id == oMsg.project_id
           w == projects[id].agent
       IN /\ workers' = [workers EXCEPT ![w].ready = TRUE]
          /\ LaunchTask(oMsg, [projects EXCEPT ![id].state = "running"],
                        oCmds)
    /\ oPc' = "idle"
    /\ UNCHANGED <<disk, workingAreas, nworkers, orchEvents, oMsg, oCmds,
                   oPre, timerCommits, timerWorker>>

\* ProjectAgent.start raises "Authentication failed"
\* (project_agent.py:139-141); the error leaves _handle_assign_task and is
\* logged at lines 224-225
AgentStartFailed ==
    /\ OrchestratorFrame
    /\ oPc = "starting"
    /\ oPc' = "idle"
    /\ UNCHANGED <<disk, workingAreas, projects, workers, nworkers, tasks,
                   nassigned, orchEvents, oMsg, oReply, oReplies, oCmds,
                   oPre, timerCommits, timerWorker>>

\* lines 439-441
Finally(projs, t) == [projs EXCEPT ![tasks[t].project].current_task = 0]

\* _execute_project_task starts running, lines 420-422, and enters
\* ProjectAgent.execute_task, project_agent.py:196-218
TaskBegin(t) ==
    /\ OrchestratorFrame
    /\ tasks[t].pc = "created"
    /\ LET w == projects[tasks[t].project].agent
       IN IF w = 0
          THEN /\ tasks' = [tasks EXCEPT ![t].pc = "done"]
               /\ projects' = Finally(projects, t)
          ELSE /\ tasks' = [tasks EXCEPT
                              ![t].worker = w,
                              ![t].pc = IF workers[w].ready THEN "start_task"
                                        ELSE "publish"]
               /\ UNCHANGED projects
    /\ UNCHANGED <<disk, workingAreas, workers, nworkers, nassigned,
                   orchEvents, oPc, oMsg, oReply, oReplies, oCmds, oPre,
                   timerCommits, timerWorker>>

\* WorkflowManager.start_task returns, workflow.py:175-233, and
\* project_agent.py:220-230 continues
StartTaskReturns(t) ==
    /\ OrchestratorFrame
    /\ tasks[t].pc = "start_task"
    /\ \E ok \in BOOLEAN :
          IF ok
          THEN /\ workers' = [workers EXCEPT ![tasks[t].worker].timer = TRUE]
               /\ tasks' = [tasks EXCEPT ![t].pc = "executor"]
          ELSE /\ tasks' = [tasks EXCEPT ![t].pc = "publish"]
               /\ UNCHANGED workers
    /\ UNCHANGED <<disk, workingAreas, projects, nworkers, nassigned,
                   orchEvents, oPc, oMsg, oReply, oReplies, oCmds, oPre,
                   timerCommits, timerWorker>>

\* CogentAgent.execute_task returns, project_agent.py:232-257; on success
\* complete_task is entered and stops the timer, workflow.py:292-294
ExecutorReturns(t) ==
    /\ OrchestratorFrame
    /\ tasks[t].pc = "executor"
    /\ \E ok \in BOOLEAN :
          IF ok
          THEN /\ workers' = [workers EXCEPT ![tasks[t].worker].timer = FALSE]
               /\ tasks' = [tasks EXCEPT ![t].pc = "complete_task"]
          ELSE /\ tasks' = [tasks EXCEPT ![t].pc = "wip_commit"]
               /\ UNCHANGED workers
    /\ UNCHANGED <<disk, workingAreas, projects, nworkers, nassigned,
                   orchEvents, oPc, oMsg, oReply, oReplies, oCmds, oPre,
                   timerCommits, timerWorker>>

\* the commit of the unfinished work returns, project_agent.py:247-251
WipCommitReturns(t) ==
    /\ OrchestratorFrame
    /\ tasks[t].pc = "wip_commit"
    /\ tasks' = [tasks EXCEPT ![t].pc = "publish"]
    /\ UNCHANGED <<disk, workingAreas, projects, workers, nworkers, nassigned,
                   orchEvents, oPc, oMsg, oReply, oReplies, oCmds, oPre,
                   timerCommits, timerWorker>>

\* complete_task returns, project_agent.py:254-276
CompleteTaskReturns(t) ==
    /\ OrchestratorFrame
    /\ tasks[t].pc = "complete_task"
    /\ \E ok \in BOOLEAN :
          tasks' = [tasks EXCEPT ![t].pc = "publish", ![t].success = ok]
    /\ UNCHANGED <<disk, workingAreas, projects, workers, nworkers, nassigned,
                   orchEvents, oPc, oMsg, oReply, oReplies, oCmds, oPre,
                   timerCommits, timerWorker>>

\* lines 424-433 and 439-441: the completion event is published
TaskEnd(t) ==
    /\ OrchestratorFrame
    /\ tasks[t].pc = "publish"
    /\ orchEvents' = Append(orchEvents,
                            [type |-> "task_completed", task_id |-> t,
                             success |-> tasks[t].success])
    /\ tasks' = [tasks EXCEPT ![t].pc = "done"]
    /\ projects' = Finally(projects, t)
    /\ UNCHANGED <<disk, workingAreas, workers, nworkers, nassigned, oPc,
                   oMsg, oReply, oReplies, oCmds, oPre, timerCommits,
                   timerWorker>>

\* lines 435-441: publish_event raises, the error is logged and the project
\* marked
TaskPublishFailed(t) ==
    /\ OrchestratorFrame
    /\ tasks[t].pc = "publish"
    /\ tasks' = [tasks EXCEPT ![t].pc = "done"]
    /\ projects' = [Finally(projects, t) EXCEPT
                       ![tasks[t].project].state = "error"]
    /\ UNCHANGED <<disk, workingAreas, workers, nworkers, nassigned,
                   orchEvents, oPc, oMsg, oReply, oReplies, oCmds, oPre,
                   timerCommits, timerWorker>>

\* auto_commit_loop wakes up and commits, workflow.py:513-521
AutoCommit(w) ==
    /\ OrchestratorFrame
    /\ workers[w].timer
    /\ timerCommits < MaxTimerCommits
    /\ timerCommits' = timerCommits + 1
    /\ timerWorker' = w
    /\ UNCHANGED <<disk, workingAreas, projects, workers, nworkers, tasks,
                   nassigned, orchEvents, oPc, oMsg, oReply, oReplies, oCmds,
                   oPre>>

\* the agent id of the orchestrator's NATSHandler (config.py:118-121) and
\* the ids of other agents that publish events on the same broker
OwnAgentId == "cogent-agent-001"
OtherAgentIds == {"cogent-agent-002", "cogent-agent-003"}

\* a message on agent.<agent>.events.<kind>.  origin is the position of the
\* event it goes back to, hops the number of times it was republished.
BusMessage(agent, kind, source, origin, hops) ==
    [agent |-> agent, kind |-> kind, source_agent |-> source,
     origin |-> origin, hops |-> hops]

\* another agent's transport publishes an event (nats_handler.py:276-304);
\* the broker matches its subject with agent.*.events.> (line 197)
ChildEvent ==
    /\ AggregationFrame
    /\ oPc # "new"
    /\ Len(bus) < MaxBus
    /\ \E a \in OtherAgentIds, k \in {"task_started", "task_completed"} :
          bus' = Append(bus, BusMessage(a, k, NoneId, Len(bus) + 1, 0))
    /\ UNCHANGED <<ovars, aggPos>>

\* _handle_project_event, lines 227-247: parts[1] of the subject is the
\* tag; publish_event sends the copy on agent.<own id>.events.agent_message
\* (nats_handler.py:301-302), which the broker matches with
\* agent.*.events.> as well
HandleProjectEvent ==
    /\ AggregationFrame
    /\ aggPos < Len(bus)
    /\ Len(bus) < MaxBus
    /\ aggPos' = aggPos + 1
    /\ LET m == bus[aggPos + 1]
       IN bus' = Append(bus, BusMessage(OwnAgentId, "agent_message", m.agent,
                                        m.origin, m.hops + 1))
    /\ UNCHANGED ovars

\* initialize creates the monitoring task as its last statement, line 117
MonitorTaskExists == oPc # "new"

\* line 256: the projects a sweep looks at
Monitored(projs) ==
    {id \in DOMAIN projs : projs[id].agent # 0 /\ projs[id].state = "running"}

\* a sweep that puts every project it looks at in error
MonitorSweepFlippingAll ==
    /\ ShutdownFrame
    /\ MonitorTaskExists /\ ~monDone /\ ~monCancelReq
    /\ Len(sweeps) < MaxSweeps
    /\ sweeps' = Append(sweeps, Monitored(projects))
    /\ projects' =
          [id \in DOMAIN projects |->
              IF id \in Monitored(projects)
              THEN [projects[id] EXCEPT !.state = "error"]
              ELSE projects[id]]
    /\ UNCHANGED <<disk, workingAreas, workers, nworkers, tasks, nassigned,
                   orchEvents, oPc, oMsg, oReply, oReplies, oCmds, oPre,
                   timerCommits, timerWorker, monDone, monCancelReq, sPc>>
\* _monitor_loop, lines 249-268: one sweep after the 60 second sleep; no
\* statement of the sweep suspends, and is_ready (project_agent.py:113-116)
\* reads two flags
MonitorSweep ==
    /\ ShutdownFrame
    /\ MonitorTaskExists /\ ~monDone /\ ~monCancelReq
    /\ Len(sweeps) < MaxSweeps
    /\ sweeps' = Append(sweeps, Monitored(projects))
    /\ projects' =
          [id \in DOMAIN projects |->
              IF /\ id \in Monitored(projects)
                 /\ ~workers[projects[id].agent].ready
              THEN [projects[id] EXCEPT !.state = "error"]
              ELSE projects[id]]
    /\ UNCHANGED <<disk, workingAreas, workers, nworkers, tasks, nassigned,
                   orchEvents, oPc, oMsg, oReply, oReplies, oCmds, oPre,
                   timerCommits, timerWorker, monDone, monCancelReq, sPc>>

\* CancelledError reaches the loop at its sleep (line 265: break), or the
\* task is cancelled before it ever ran
MonitorCancelled ==
    /\ ShutdownFrame
    /\ MonitorTaskExists /\ ~monDone /\ monCancelReq
    /\ monDone' = TRUE
    /\ UNCHANGED <<ovars, monCancelReq, sPc, sweeps>>

\* lines 136-139: ProjectAgent.stop (project_agent.py:167-177) clears
\* _running and _ready and awaits CogentAgent.shutdown, which never
\* suspends (core.py:434-437), so the whole loop is one step
StopAllAgents ==
    workers' = [w \in 1..MaxWorkers |->
                   IF \E id \in DOMAIN projects : projects[id].agent = w
                   THEN [workers[w] EXCEPT !.ready = FALSE]
                   ELSE workers[w]]

\* shutdown, lines 125-134, up to its first suspension
ShutdownBegin ==
    /\ ShutdownFrame
    /\ sPc = "idle"
    /\ IF MonitorTaskExists
       THEN /\ monCancelReq' = TRUE
            /\ sPc' = "await_monitor"
            /\ UNCHANGED workers
       ELSE /\ StopAllAgents
            /\ sPc' = "done"
            /\ UNCHANGED monCancelReq
    /\ UNCHANGED <<disk, workingAreas, projects, nworkers, tasks, nassigned,
                   orchEvents, oPc, oMsg, oReply, oReplies, oCmds, oPre,
                   timerCommits, timerWorker, monDone, sweeps>>

\* a shutdown that returns once the monitoring task has ended
ShutdownFinishLeavingAgents ==
    /\ ShutdownFrame
    /\ sPc = "await_monitor"
    /\ monDone
    /\ sPc' = "done"
    /\ UNCHANGED <<ovars, monDone, monCancelReq, sweeps>>
\* shutdown, lines 131-141: the awaited monitoring task has ended
ShutdownFinish ==
    /\ ShutdownFrame
    /\ sPc = "await_monitor"
    /\ monDone
    /\ StopAllAgents
    /\ sPc' = "done"
    /\ UNCHANGED <<disk, workingAreas, projects, nworkers, tasks, nassigned,
                   orchEvents, oPc, oMsg, oReply, oReplies, oCmds, oPre,
                   timerCommits, timerWorker, monDone, monCancelReq,
                   sweeps>>

\* shutdown racing with the command callback
NextShutdown ==
    \/ Initialize
    \/ HandleCreateProject
    \/ HandleAssignTask
    \/ AgentStarted
    \/ AgentStartFailed
    \/ HandleStopProject
    \/ MonitorSweep
    \/ MonitorCancelled
    \/ ShutdownBegin
    \/ ShutdownFinish

NextAggregation ==
    \/ Initialize
    \/ ChildEvent
    \/ HandleProjectEvent

NextOrchestrator ==
    \/ Initialize
    \/ HandleListProjects
    \/ HandleCreateProject
    \/ HandleAssignTask
    \/ AgentStarted
    \/ AgentStartFailed
    \/ HandleGetProjectStatus
    \/ HandleStopProject
    \/ HandleUnknownCommand
    \/ \E t \in 1..MaxAssigns :
          \/ TaskBegin(t)
          \/ StartTaskReturns(t)
          \/ ExecutorReturns(t)
          \/ WipCommitReturns(t)
          \/ CompleteTaskReturns(t)
          \/ TaskEnd(t)
          \/ TaskPublishFailed(t)
    \/ \E w \in 1..MaxWorkers : AutoCommit(w)

(***************************************************************************)
(* Specifications                                                          *)
(***************************************************************************)
Init ==
    /\ InitTransport
    /\ InitListening
    /\ InitGateway
    /\ InitClient
    /\ InitWorkflowWith(DefaultConfig)
    /\ InitEnvelopeWith(DefaultEnvelope)
    /\ InitOrchestratorWith(DefaultWorkspace)

\* a connected transport on which start_listening was not called yet
InitBeforeListening ==
    /\ InitTransport
    /\ InitConnected
    /\ InitGateway
    /\ InitClient
    /\ InitWorkflowWith(DefaultConfig)
    /\ InitEnvelopeWith(DefaultEnvelope)
    /\ InitOrchestratorWith(DefaultWorkspace)

\* every WorkflowConfig
InitAnyConfig ==
    /\ InitTransport
    /\ InitListening
    /\ InitGateway
    /\ InitClient
    /\ InitWorkflow
    /\ InitEnvelopeWith(DefaultEnvelope)
    /\ InitOrchestratorWith(DefaultWorkspace)

\* every envelope
InitAnyEnvelope ==
    /\ InitTransport
    /\ InitListening
    /\ InitGateway
    /\ InitClient
    /\ InitWorkflowWith(DefaultConfig)
    /\ InitEnvelope
    /\ InitOrchestratorWith(DefaultWorkspace)

\* every workspace
InitAnyWorkspace ==
    /\ InitTransport
    /\ InitListening
    /\ InitGateway
    /\ InitClient
    /\ InitWorkflowWith(DefaultConfig)
    /\ InitEnvelopeWith(DefaultEnvelope)
    /\ InitOrchestrator

SpecTransport == Init /\ [][NextTransport]_vars

\* the asyncio event loop runs every ready task and callback
SpecTransportFair ==
    SpecTransport /\ WF_vars(RunStep) /\ WF_vars(ExecuteLaunch)
                  /\ WF_vars(AsyncGenFinalize)

SpecDisconnect == Init /\ [][NextDisconnect]_vars

\* the event loop runs the heartbeat task and the task inside disconnect
SpecHeartbeat ==
    /\ InitBeforeListening
    /\ [][NextHeartbeat]_vars
    /\ WF_vars(HeartbeatBeat)
    /\ WF_vars(HeartbeatCancelled)
    /\ WF_vars(DisconnectResume)
    /\ WF_vars(Unsubscribe)
    /\ WF_vars(DisconnectClose)

SpecClient == InitBeforeListening /\ [][NextClient]_vars

SpecGateway == Init /\ [][NextGateway]_vars

\* the message loops alone; a request to the broker ends within its
\* 30-second timeout
SpecGatewayClients ==
    /\ Init
    /\ [][NextGatewayClients]_vars
    /\ \A s \in Sessions : WF_vars(RequestReturns(s))

SpecWorkflow == InitAnyConfig /\ [][NextWorkflow]_vars

SpecEnvelope == InitAnyEnvelope /\ [][NextEnvelope]_vars

SpecOrchestrator == InitAnyWorkspace /\ [][NextOrchestrator]_vars
SpecAggregation == InitAnyWorkspace /\ [][NextAggregation]_vars
SpecShutdown == InitAnyWorkspace /\ [][NextShutdown]_vars

(***************************************************************************)
(* Properties of the AgentTransport                                        *)
(***************************************************************************)
TerminalKinds == {"task_completed", "task_failed"}
TerminalIdx(r) == {i \in DOMAIN events :
                     events[i].run = r /\ events[i].type \in TerminalKinds}
TerminalCount(r) == Cardinality(TerminalIdx(r))

\* C1: at most one run launched by execute_task is unfinished in any state,
\* and an execute_task that arrives while a run is unfinished is answered
\* with success = false and starts no launch.
C1_AtMostOneActiveTask ==
    /\ Cardinality(Unfinished) <= 1
    /\ (lastCmd.type = "execute_task" /\ lastBusy) =>
          /\ hPc = "idle"
          /\ lastCmd.reply => (lastReply.type = "execute_task"
                               /\ lastReply.success = FALSE)

C1_Witness ==
    /\ lastCmd.type = "execute_task" /\ lastCmd.prompt = "p" /\ lastBusy
    /\ lastCmd.reply
    /\ lastReply.error = "Agent is busy processing another task"
    /\ Cardinality(Unfinished) = 1

\* C2 (as claimed): a run whose cancellation was accepted ends with exactly
\* one terminal event published for it.
C2_CancelExactlyOneTerminal ==
    \A r \in Runs : (runCancelReq[r] /\ Done(r)) => TerminalCount(r) = 1

\* C3: a run's events hold at most one terminal event and no task_progress
\* after it; a run that finished without being cancelled has exactly one;
\* and every accepted run that is never cancelled gets its terminal event.
C3_Safety ==
    \A r \in Runs :
        /\ TerminalCount(r) <= 1
        /\ \A i \in TerminalIdx(r) : \A j \in DOMAIN events :
               (j > i /\ events[j].run = r) => events[j].type # "task_progress"
        /\ (Done(r) /\ ~runCancelReq[r]) => TerminalCount(r) = 1

C10_Step ==
    (ncmds' = ncmds + 1 /\ lastCmd'.type \notin MessageType) =>
        /\ activeTask' = activeTask
        /\ taskCancelled' = taskCancelled
        /\ runPc' = runPc
        /\ runCancelReq' = runCancelReq
        /\ hPc' = "idle"
        /\ IF lastCmd'.reply
           THEN /\ nreplies' = nreplies + 1
                /\ lastReply'.success = FALSE
                /\ lastReply'.error # ""
           ELSE nreplies' = nreplies /\ lastReply' = lastReply

C10_UnknownKindIsData == [][C10_Step]_vars

C10_Witness ==
    /\ lastCmd.type = "bogus" /\ lastCmd.prompt = "p" /\ lastCmd.reply
    /\ lastReply.error = "ValueError" /\ ~lastReply.success
    /\ HasActiveTask

\* C15: get_status changes neither the active task, the cancellation flag,
\* the runs nor the published events, and its reply reports success with
\* has_active_task true exactly when a launched run has not finished.
C15_Step ==
    (ncmds' = ncmds + 1 /\ lastCmd'.type = "get_status") =>
        /\ UNCHANGED <<activeTask, taskCancelled, runPc, runCancelReq,
                       events>>
        /\ lastCmd'.reply =>
              /\ lastReply'.type = "get_status"
              /\ lastReply'.success
              /\ lastReply'.has_active_task <=> (Unfinished # {})

C15_GetStatusIsPure == [][C15_Step]_vars

C15_Witness ==
    /\ lastCmd.type = "get_status" /\ lastCmd.reply
    /\ lastReply.type = "get_status" /\ lastReply.success
    /\ ~lastReply.has_active_task
    /\ activeTask # 0 /\ Done(activeTask)

\* C26: an execute_task that is rejected, because a run is still active or
\* because the prompt is empty, publishes no event, keeps the cancellation
\* flag, keeps the active-task handle and leaves every run as it was; its
\* reply, when one is asked for, is a failure.
C26_Step ==
    (/\ ncmds' = ncmds + 1
     /\ lastCmd'.type = "execute_task"
     /\ \/ lastCmd'.prompt = ""
        \/ activeTask # 0 /\ runPc[activeTask] \in {"created", "streaming"})
    => /\ events' = events
       /\ taskCancelled' = taskCancelled
       /\ activeTask' = activeTask
       /\ UNCHANGED <<runPc, runCancelReq, runResult, hPc>>
       /\ lastCmd'.reply => /\ ~lastReply'.success
                            /\ nreplies' = nreplies + 1
C26_RejectedExecuteChangesNothing == [][C26_Step]_vars

\* a prompt-carrying execute_task was refused while a run was active
C26_Witness ==
    /\ lastCmd.type = "execute_task" /\ lastCmd.prompt = "p" /\ lastCmd.reply
    /\ lastReply.error = "Agent is busy processing another task"
    /\ HasActiveTask
    /\ hPc = "idle"

\* C27: a cancel_task handled while no run is active (none was ever
\* launched, or the launched one is done) is answered with a failure and
\* does not set the cancellation flag or request any cancellation; whatever
\* the flag holds, the next launched run starts with the flag clear and
\* without a pending cancellation request.
C27_Step ==
    /\ (/\ ncmds' = ncmds + 1
        /\ lastCmd'.type = "cancel_task"
        /\ ~(activeTask # 0 /\ runPc[activeTask] \in {"created", "streaming"}))
       => /\ taskCancelled' = taskCancelled
          /\ UNCHANGED <<runCancelReq, activeTask, runPc, runResult, events>>
          /\ lastCmd'.reply => /\ ~lastReply'.success
                               /\ lastReply'.error = "No active task to cancel"
                               /\ nreplies' = nreplies + 1
    /\ (hPc = "exec_started" /\ hPc' = "idle")
       => /\ ~taskCancelled'
          /\ runPc'[activeTask'] = "created"
          /\ ~runCancelReq'[activeTask']
C27_IdleCancelHasNoEffect == [][C27_Step]_vars

\* a cancel_task was refused after the only run had finished
C27_Witness ==
    /\ lastCmd.type = "cancel_task" /\ lastCmd.reply
    /\ lastReply.error = "No active task to cancel"
    /\ activeTask # 0 /\ Done(activeTask)
    /\ ~taskCancelled

\* C28: once a cancel_task was accepted for a run, no event of that run,
\* task_progress included, is published any more; the run never reaches
\* the end of the executor's stream (its outcome is a cancelled one, not
\* "ok" and not "failed"); and the run does end.
C28_Step ==
    \A r \in Runs :
        runCancelReq[r] =>
            /\ \A i \in DOMAIN events' :
                   i > Len(events) => events'[i].run # r
            /\ runPc'[r] \in {runPc[r], "done"}
C28_Outcome ==
    \A r \in Runs :
        (runCancelReq[r] /\ Done(r)) =>
            runResult[r] \in {"cancelled_error", "cancelled_result"}
C28_CancelStopsProgress ==
    /\ []C28_Outcome
    /\ [][C28_Step]_vars
    /\ \A r \in Runs : runCancelReq[r] ~> Done(r)

\* a streaming run that had published progress and still had messages to
\* produce ended cancelled
C28_Witness ==
    \E r \in Runs :
        /\ runCancelReq[r] /\ Done(r) /\ runLeft[r] > 0
        /\ runResult[r] = "cancelled_error"
        /\ \E i \in DOMAIN events :
               events[i].run = r /\ events[i].type = "task_progress"

\* C29: every accepted execute_task publishes task_started exactly once,
\* before its accepted reply and before any progress or terminal event of
\* its run; the reply is sent while the run has not even started, carries
\* the command's correlation id, and the flag is clear when the run begins.
StartedBefore(i) ==
    Cardinality({j \in 1..(i - 1) : events[j].type = "task_started"})
Launched == {r \in Runs : runPc[r] # "unborn"}
C29_Order ==
    /\ StartedBefore(Len(events) + 1)
          = Cardinality(Launched) + (IF hPc = "exec_started" THEN 1 ELSE 0)
    /\ \A i \in DOMAIN events :
          events[i].run # 0 => StartedBefore(i) >= events[i].run
C29_Step ==
    /\ (hPc = "exec_started" /\ hPc' = "idle")
       => /\ events' = events
          /\ Last(events).type = "task_started"
          /\ Last(events).corr = hMsg.corr
          /\ runPc'[activeTask'] = "created"
          /\ hMsg.reply => /\ lastReply'.success
                           /\ lastReply'.error = "Task started"
                           /\ lastReply'.corr = hMsg.corr
                           /\ nreplies' = nreplies + 1
    /\ \A r \in Runs :
          (runPc[r] = "created" /\ runPc'[r] # "created"
             /\ runResult'[r] # "cancelled_error")
          => ~taskCancelled
C23_Inv ==
    /\ dPc # "raised"
    /\ dPc = "await_hb" => hbCancelReq /\ hbPc \in {"sleeping", "done"}
    /\ dPc \in {"unsub", "done"} => hbPc \in {"none", "done"}
    /\ dPc = "unsub" => unsubTried = 1..(dIdx - 1)
    /\ dPc = "done" => unsubTried = 1..nsubs
C23_Step ==
    (dPc \in {"idle", "await_hb"} /\ dPc' = "unsub" /\ activeTask # 0)
    => /\ taskCancelled'
       /\ runPc[activeTask] \in {"created", "streaming"}
             => runCancelReq'[activeTask]
C23_DisconnectNeverRaises == []C23_Inv /\ [][C23_Step]_vars

\* disconnect returned after the first unsubscribe and the drain had failed,
\* having cancelled the run of the only command
C23_Witness ==
    /\ dPc = "done" /\ subscribed = {1} /\ ncConnected
    /\ ncmds = 1 /\ lastCmd.type = "execute_task"
    /\ runCancelReq[1] /\ taskCancelled

\* C30: once start_listening has returned, the first heartbeat published
\* is the 'ready' one and the later ones come from the loop; a publish
\* that raises leaves the loop running; the loop ends only after
\* disconnect has cancelled it; and as long as it is not cancelled the
\* loop makes another attempt.
HeartbeatAttempts == Len(heartbeats) + hbFailures
C30_Inv ==
    /\ listenPc = "listening"
          => /\ Len(heartbeats) >= 1
             /\ heartbeats[1] = "ready"
             /\ \A i \in 2..Len(heartbeats) : heartbeats[i] = "alive"
             /\ hbPc # "none"
    /\ hbPc = "done" => hbCancelReq
    /\ hbCancelReq => dPc # "idle"
C30_Step == hbFailures' > hbFailures => hbPc' = "sleeping" /\ ~hbCancelReq'
C30_HeartbeatKeepsGoing ==
    /\ []C30_Inv
    /\ [][C30_Step]_vars
    /\ \A n \in 0..(MaxBeats - 1) :
          (hbPc = "sleeping" /\ HeartbeatAttempts = n)
             ~> (HeartbeatAttempts > n \/ hbCancelReq)

\* the loop published one heartbeat and had one publish raise, and it is
\* still running without having been cancelled
C30_Witness ==
    /\ listenPc = "listening"
    /\ heartbeats = <<"ready", "alive">>
    /\ hbFailures = 1
    /\ hbPc = "sleeping" /\ ~hbCancelReq

\* C25: send_command never raises on a connected client; when it returns
\* after a timeout or because nobody listens, the response has
\* success = false and a 'timed out' or 'no responders' error; and the
\* step in which it returns changes nothing on the agent: the active-task
\* handle, the flag, the runs and the events published stay as they were.
C25_Inv ==
    /\ clPc \in {"idle", "sent", "replied", "timed_out", "no_responders"}
    /\ clPc = "timed_out" =>
          ~clResult.success /\ clResult.error = "Request timed out"
    /\ clPc = "no_responders" =>
          /\ ~clResult.success
          /\ clResult.error = "nats: no responders available for request"
C25_Step ==
    clPc' # clPc =>
        UNCHANGED <<activeTask, taskCancelled, runPc, runCancelReq, runLeft,
                    runResult, agentState, events, hPc>>
C25_TimeoutIsStructured == []C25_Inv /\ [][C25_Step]_vars

\* the caller got 'Request timed out' and the run its command started is
\* streaming, not cancelled
C25_Witness ==
    /\ clPc = "timed_out" /\ clResult.error = "Request timed out"
    /\ lastCmd.type = "execute_task" /\ lastCmd.reply /\ ncmds = 1
    /\ activeTask # 0 /\ runPc[activeTask] = "streaming"
    /\ ~runCancelReq[activeTask] /\ ~taskCancelled

C18_Step ==
    /\ (fanSubject # <<>> /\ fanSubject' = <<>>) =>
          \A s \in fanStable : fanSent[s] = 1
    /\ \A s \in Sessions : fanSent'[s] <= 1
C18_FanOutReachesAll == [][C18_Step]_vars

\* C19: a session whose connection has ended is not in the client map, has
\* no subscriptions, and is sent no event from then on.
C19_Step ==
    \A s \in closed' :
        /\ s \notin clients'
        /\ subscriptions'[s] = {}
        /\ s \in closed => sentEvents'[s] = sentEvents[s]
C19_ClosedSessionIsGone == [][C19_Step]_vars

\* a session that had subscribed to agent a has ended, and an event of
\* agent a is sent to the other session and not to it
C19_Witness ==
    /\ 1 \in closed /\ <<"a">> \in everSub[1] /\ sentEvents[1] = <<>>
    /\ 2 \in clients /\ fanSubject = EventSubject(<<"a">>, "task_started")
    /\ fanSent[2] = 1

\* C20: every 'command' message of a session has exactly one answer (a
\* command_response, with the agent's reply or the time-out error, or an
\* error message) once its handling is over and none before, and the
\* handling of every command comes to its end.
C20_Answered ==
    \A s \in Sessions :
        /\ cmdAnswers[s] =
              cmdIssued[s] - (IF cmdPc[s] = "requesting" THEN 1 ELSE 0)
        /\ cmdAnswers[s] > 0 =>
              lastAnswer[s].type \in {"command_response", "error"}
C20_CommandAnswered ==
    /\ []C20_Answered
    /\ \A s \in Sessions : (cmdPc[s] = "requesting") ~> (cmdPc[s] = "idle")

\* a command whose request timed out was answered with the error
C20_Witness ==
    /\ cmdPc[1] = "idle" /\ cmdIssued[1] = 1 /\ cmdAnswers[1] = 1
    /\ lastAnswer[1] = Answer("command_response", "Request timed out")

(***************************************************************************)
(* Properties of the WorkflowManager                                       *)
(***************************************************************************)
Rank(st) == CHOOSE i \in DOMAIN WorkflowOrder : WorkflowOrder[i] = st

\* C5 (as claimed): within one task's run the workflow state only moves
\* forward in the order idle .. completed, or to failed.
C5_MonotonicStep ==
    (ntasks' = ntasks /\ wfState' # wfState) =>
        \/ wfState' = "failed"
        \/ wfState # "failed" /\ Rank(wfState') > Rank(wfState)

C5_WorkflowMonotonic == [][C5_MonotonicStep]_vars

\* C6 (as claimed): once the state is completed or failed, nothing changes
\* it again until another task is started.
C6_TerminalStep ==
    (wfState \in {"completed", "failed"} /\ ntasks' = ntasks) =>
        wfState' = wfState

C6_TerminalIsFinal == [][C6_TerminalStep]_vars

\* C7: when tests are enabled and the test run reported failure with n failed
\* tests, complete_task returns success = false in state failed with the
\* test outcome attached and an error naming n, and neither the push nor the
\* pull-request creation was attempted.
C7_TestFailureShortCircuits ==
    (lastReturn = "complete_task" /\ ctTest.ran /\ ~ctTest.success) =>
        /\ wfConfig.run_tests
        /\ ~wfResult.success
        /\ wfResult.state = "failed"
        /\ wfResult.test = ctTest
        /\ wfResult.error = TestsFailedError(ctTest.failed)
        /\ ~pushAttempted
        /\ ~prAttempted

C7_Witness ==
    /\ lastReturn = "complete_task" /\ ctTest.ran /\ ~ctTest.success
    /\ ctTest.failed = 2
    /\ wfResult.error = TestsFailedError(2)
    /\ wfState = "failed"

\* C8 (as claimed): when a collaborator call failed during start_task or
\* complete_task, the call returned success = false with state failed and
\* a workflow_failed event was emitted.
C8_FailureIsReported ==
    (lastReturn # "none" /\ callFailed) =>
        /\ ~wfResult.success
        /\ wfResult.state = "failed"
        /\ \E i \in DOMAIN wfEvents : wfEvents[i] = "workflow_failed"

(***************************************************************************)
(* Properties of the NATSMessage round trip                                *)
(***************************************************************************)
\* C9: for every envelope, from_json(to_json(e)) has the same kind, sender
\* id, payload and correlation id as e.
C9_RoundTrip ==
    envPc = "decoded" =>
        /\ restored.type = envelope.type
        /\ restored.agent_id = envelope.agent_id
        /\ restored.payload = envelope.payload
        /\ restored.correlation_id = envelope.correlation_id

C9_Witness ==
    /\ envPc = "decoded"
    /\ envelope.type = "task_completed"
    /\ envelope.correlation_id = PyNone
    /\ envelope.payload =
          PyDict(<< <<"a", PyStr("1")>>,
                    <<"b", PyList(<<PyInt(1), PyList(<<PyBool(FALSE)>>)>>)>> >>)
    /\ restored.payload = envelope.payload


(***************************************************************************)
(* Properties of the orchestrator                                          *)
(***************************************************************************)
\* C11: discovery is idempotent: on an unchanged workspace, running it a
\* second time leaves the working-area map and the ProjectInfo map (ids,
\* states, worker references) exactly as the first run left them.
C11_DiscoveryIdempotent ==
    Discovered(Discovered(Registry)) = Discovered(Registry)

\* discovery has run at start-up, found a project next to hidden entries
\* and plain files, and running it again changes nothing
C11_Witness ==
    /\ oPc = "idle" /\ oCmds = 0
    /\ DOMAIN projects = {ProjectIdOf("default", "svc")}
    /\ <<"default", ".git">> \in disk.dirs
    /\ Discovered(Registry) = Registry

\* C12: create_project(area, name) succeeds exactly when area/name does not
\* exist yet; on success the directory exists and the project is registered
\* in state pending, and it stays registered and pending, and list_projects
\* reports it so, until an assign_task or stop_project for it is handled; for
\* an existing directory the reply is a failure and no project is registered.
C12_Step ==
    /\ (oCmds' = oCmds + 1 /\ oMsg'.command = "create_project"
            /\ oMsg'.name # NoneId) =>
          LET id == TargetOf(oMsg')
              existed == id \in disk.dirs \cup disk.files
          IN /\ oReply'.seq = oCmds'
             /\ oReply'.success <=> ~existed
             /\ ~existed => /\ id \in disk'.dirs
                            /\ id \notin DOMAIN projects
                            /\ id \in DOMAIN projects'
                            /\ projects'[id].state = "pending"
             /\ existed => projects' = projects
    /\ (oCmds' = oCmds + 1 /\ oMsg'.command = "list_projects"
            /\ oMsg'.reply) =>
          /\ oReply'.seq = oCmds'
          /\ oReply'.success
          /\ DOMAIN oReply'.listing = DOMAIN projects
          /\ \A id \in DOMAIN projects :
                oReply'.listing[id] = projects[id].state
    /\ \A id \in DOMAIN projects :
          projects[id].state = "pending" =>
             /\ id \in DOMAIN projects'
             /\ \/ projects'[id].state = "pending"
                \/ /\ oMsg'.project_id = id
                   /\ oMsg'.command \in {"assign_task", "stop_project"}
                \/ UnfinishedTasks(id) # {}
C12_CreateProject == [][C12_Step]_vars

\* a project created below a hidden area, which discovery never registers,
\* is listed as pending by a later list_projects
C12_Witness ==
    /\ oMsg.command = "list_projects" /\ oReply.seq = oCmds
    /\ ProjectIdOf(".cache", "web") \in DOMAIN oReply.listing
    /\ oReply.listing[ProjectIdOf(".cache", "web")] = "pending"
    /\ <<".cache", "web">> \in disk.dirs

\* C13: once assign_task for a registered project has been handled, a
\* project that had no running worker has exactly one new worker, which is
\* running, and the reply is {success, task_id} sent before that task has
\* finished; a project whose worker was running got no new worker.
C13_AssignStartsWorker ==
    (/\ oPc = "idle" /\ oMsg.command = "assign_task"
     /\ oMsg.prompt # NoneId /\ oPre.registered) =>
        LET w == projects[oMsg.project_id].agent
        IN /\ ~oPre.ready =>
                 /\ nworkers = oPre.nworkers + 1
                 /\ w # 0 /\ workers[w].project = oMsg.project_id
                 /\ workers[w].ready
           /\ oPre.ready => nworkers = oPre.nworkers
           /\ oReply.seq = oCmds /\ oReply.success
           /\ oReply.task_id # 0 /\ oReply.task_pc # "done"

\* the terminal events published for a task id
TaskEventCount(t) ==
    Cardinality({i \in 1..Len(orchEvents) :
                    /\ orchEvents[i].task_id = t
                    /\ orchEvents[i].type \in {"task_completed", "task_failed"}})

\* C14: every task id handed out by assign_task gets exactly one terminal
\* event: never more than one, and one has been published by the time the
\* task's coroutine has finished, whatever stop_project or further
\* assign_task commands were handled meanwhile and whatever the outcome.
C14_OneTerminalTaskEvent ==
    \A t \in 1..nassigned :
        /\ TaskEventCount(t) <= 1
        /\ tasks[t].pc = "done" => TaskEventCount(t) = 1

\* the positions at which a task is inside ProjectAgent.execute_task
Executing == {"start_task", "executor", "wip_commit", "complete_task"}

\* C16: a worker processes one task at a time: an assign_task that arrives
\* while a task of the project has not finished is not answered with
\* success, and no two tasks are inside execute_task of the same worker.
C16_OneTaskAtATime ==
    /\ (/\ oPc = "idle" /\ oMsg.command = "assign_task"
         /\ oPre.unfinished # {}) =>
            ~(oReply.seq = oCmds /\ oReply.success)
    /\ \A t1, t2 \in 1..nassigned :
          (/\ t1 # t2 /\ tasks[t1].worker = tasks[t2].worker
           /\ tasks[t1].pc \in Executing) => tasks[t2].pc \notin Executing

\* C17: the auto-commit timer of a worker makes no commit while a
\* complete_task call is running on that worker.
C17_Step ==
    timerCommits' = timerCommits + 1 =>
        \A t \in 1..nassigned :
            tasks[t].worker = timerWorker' => tasks[t].pc # "complete_task"
C17_NoTimerCommitInCompleteTask == [][C17_Step]_vars

\* C21 (as claimed): whenever the command callback has returned, the last
\* command delivered with a reply subject has its reply: a reply was
\* published for that very command, and it reports success or carries an
\* error text.
C21_EveryCommandAnswered ==
    (oPc = "idle" /\ oCmds > 0 /\ oMsg.reply) =>
        /\ oReply.seq = oCmds
        /\ oReply.command = oMsg.command
        /\ oReply.success \/ oReply.error # ""

\* C22 (as claimed): an event of a child is republished once, tagged with
\* the agent id of its subject, and a republished event is not republished
\* again: no message on the stream has made more than one hop, and no
\* event has two copies.
C22_RepublishedOnce ==
    /\ \A i \in DOMAIN bus :
          /\ bus[i].hops <= 1
          /\ bus[i].hops = 1 => bus[i].source_agent = bus[bus[i].origin].agent
    /\ \A i, j \in DOMAIN bus :
          (bus[i].hops > 0 /\ bus[j].hops > 0 /\ bus[i].origin = bus[j].origin)
             => i = j

\* C24: at the step in which shutdown returns, the monitoring task has
\* finished and no worker is ready; shutdown waits for nothing but the
\* monitoring task it has cancelled, and the monitoring task ends only
\* after it was cancelled.
C24_Step ==
    (sPc # "done" /\ sPc' = "done")
    => /\ MonitorTaskExists' => monDone'
       /\ \A w \in 1..MaxWorkers : ~workers'[w].ready
C24_Inv ==
    /\ sPc = "await_monitor" => monCancelReq
    /\ monDone => monCancelReq
C24_ShutdownStopsEverything == []C24_Inv /\ [][C24_Step]_vars

\* shutdown has returned and the worker of a running project, still
\* referenced by its project, is no longer ready
C24_Witness ==
    /\ sPc = "done" /\ monDone
    /\ \E id \in DOMAIN projects :
          /\ projects[id].agent # 0
          /\ projects[id].state = "running"
          /\ ~workers[projects[id].agent].ready

\* C31: a sweep of the monitoring loop changes a project only if it is
\* running and has a worker, and puts such a project in error exactly when
\* its worker is not ready; a sweep leaves the loop alive, and the loop ends
\* only after it was cancelled.
C31_Step ==
    (sweeps' # sweeps) =>
        /\ DOMAIN projects' = DOMAIN projects
        /\ \A id \in DOMAIN projects :
              IF projects[id].agent # 0 /\ projects[id].state = "running"
              THEN /\ projects'[id].state = "error"
                        <=> ~workers[projects[id].agent].ready
                   /\ projects'[id].state \in {"running", "error"}
                   /\ [projects'[id] EXCEPT !.state = "running"]
                        = projects[id]
              ELSE projects'[id] = projects[id]
        /\ ~monDone'

C31_Loop == (~monDone /\ monDone') => monCancelReq

C32_StopStep ==
    (oCmds' = oCmds + 1 /\ oMsg'.command = "stop_project") =>
        LET id == oMsg'.project_id
        IN /\ oReply'.seq = oCmds'
           /\ oReply'.success <=> id \in DOMAIN projects
           /\ <<disk', workingAreas', tasks', nworkers'>>
                 = <<disk, workingAreas, tasks, nworkers>>
           /\ IF id \in DOMAIN projects /\ projects[id].agent # 0
              THEN /\ projects' = [projects EXCEPT ![id].agent = 0,
                                                   ![id].state = "stopped"]
                   /\ ~workers'[projects[id].agent].ready
              ELSE projects' = projects /\ workers' = workers

C32_AssignStep ==
    (/\ oCmds' = oCmds + 1 /\ oMsg'.command = "assign_task"
     /\ oMsg'.prompt # NoneId /\ oMsg'.project_id \in DOMAIN projects
     /\ projects[oMsg'.project_id].agent = 0) =>
        LET id == oMsg'.project_id
            w == projects'[id].agent
        IN /\ w # 0
           /\ workers'[w].project = id
           /\ \A other \in DOMAIN projects : projects[other].agent # w
           /\ \A t \in 1..nassigned : tasks[t].worker # w
           /\ workers[w] = NoWorker

C33_CompletedOnlyAfterPush ==
    lastReturn = "complete_task" =>
        /\ wfResult.success => pushResult = "pushed"
        /\ pushResult \in {"no_remote", "error"} =>
              /\ ~wfResult.success
              /\ wfResult.state = "failed"
              /\ wfResult.error = ExceptionError
              /\ ~prAttempted
\* C34 (as claimed): a complete_task that returns a failure returns with it
\* what the call had collected: the branch name once get_status returned,
\* the commits made, the test outcome if the tests ran, and the pull request
\* if one was opened.
C34_PartialStateReported ==
    (lastReturn = "complete_task" /\ ~wfResult.success) =>
        /\ (ctTest.ran \/ pushAttempted) => wfResult.branch
        /\ wfResult.commits = ctCommits
        /\ wfResult.test = ctTest
        /\ wfResult.pr = ctPr
\* the events of the current run that have one of the given names
EventsNamed(names) == SelectSeq(wfEvents, LAMBDA e : e \in names)

\* C35: when start_task returns success the workflow is in state developing
\* and the run has emitted workflow_started and then branch_created, once
\* each, branch_created last; when complete_task returns success the state
\* is completed and workflow_completed was emitted once, as the last event
\* of the run, and no event follows it before another task is started.
C35_Step ==
    /\ (lastReturn # "start_task" /\ lastReturn' = "start_task"
            /\ wfResult'.success) =>
          /\ wfState' = "developing"
          /\ wfResult'.state = "developing"
          /\ EventsNamed({"workflow_started", "branch_created"})'
                = <<"workflow_started", "branch_created">>
          /\ Head(wfEvents') = "workflow_started"
          /\ Last(wfEvents') = "branch_created"
    /\ (lastReturn # "complete_task" /\ lastReturn' = "complete_task"
            /\ wfResult'.success) =>
          /\ wfState' = "completed"
          /\ wfResult'.state = "completed"
          /\ EventsNamed({"workflow_completed", "workflow_failed"})'
                = <<"workflow_completed">>
          /\ Last(wfEvents') = "workflow_completed"
    /\ (lastReturn = "complete_task" /\ wfResult.success /\ ntasks' = ntasks) =>
          wfEvents' = wfEvents

C36_AtMostOneTimer ==
    /\ ntimers \in {0, 1}
    /\ ntimers = 1 <=> autoCommitTask
    /\ timerPc # "dead" => ntimers = 1
    /\ ~wfConfig.auto_commit =>
          ntimers = 0 /\ timerPc = "dead" /\ nfires = 0

\* a second task has started on an engine whose timer, left running by the
\* first task, has already committed, and there is still one timer
C36_Witness ==
    /\ ntasks = 2 /\ paPc = "executing"
    /\ wfConfig.auto_commit
    /\ nfires > 0
    /\ ntimers = 1 /\ timerPc = "sleeping"
\* C37: complete_task enters pr_creating only when auto_create_pr is on, and
\* waiting_checks only when auto_merge is on too and the pull request was
\* opened; in waiting_checks the only call it waits for is the merge
\* request, whose return takes the run to completed (or, when it raises, to
\* failed); the state merging is never entered.
C37_Step ==
    /\ (wfState # "pr_creating" /\ wfState' = "pr_creating") =>
          wfConfig.auto_create_pr
    /\ (wfState # "waiting_checks" /\ wfState' = "waiting_checks") =>
          /\ wfConfig.auto_create_pr /\ wfConfig.auto_merge
          /\ ctPr' /\ prAttempted'
          /\ wfState = "pr_creating"
    /\ wfState = "waiting_checks" =>
          /\ paPc = "ct_merge"
          /\ wfState' \in {"waiting_checks", "completed", "failed"}
          /\ (wfState' = "completed") =>
                (lastReturn' = "complete_task" /\ wfResult'.success)
    /\ wfState' # "merging"

C37_MergeIsFireAndForget == [][C37_Step]_vars

\* a run that asked for the merge and completed
C37_Witness ==
    /\ wfConfig.auto_merge /\ wfConfig.auto_create_pr
    /\ wfState = "completed" /\ wfResult.pr
    /\ Last(wfEvents) = "workflow_completed"
    /\ Len(wfEvents) > 1
    /\ wfEvents[Len(wfEvents) - 1] = "auto_merge_enabled"
\* C38 (as claimed): the reply to a command carries the correlation id of
\* that command, whether the command succeeded, failed, or made
\* _handle_command raise.
C38_ReplyEchoesCorrelation ==
    (hPc = "idle" /\ ncmds > 0 /\ lastCmd.reply) =>
        lastReply.corr = lastCmd.corr
\* C39 (as claimed): while no execute_task is in progress the engine has no
\* auto-commit timer, whatever the outcome of the tasks that returned.
C39_NoTimerWithoutTask ==
    paPc = "idle" => (timerPc = "dead" /\ ntimers = 0)
\* C40 (as claimed): a project's current_task is set exactly while a task
\* assigned to the project has not finished, and is then the id of such a
\* task.
C40_CurrentTaskTracksExecution ==
    \A id \in DOMAIN projects :
        /\ projects[id].current_task # 0 <=> UnfinishedTasks(id) # {}
        /\ projects[id].current_task # 0 =>
              projects[id].current_task \in UnfinishedTasks(id)
====
